---- MODULE Spec2Model ----
(***************************************************************************)
(* VisionSteam: IPTV channel browser and live-stream player.               *)
(*                                                                         *)
(* The module holds several state machines over one set of variables:     *)
(*   SpecFlatten  the flattening functions applied to bounded playlists    *)
(*   SpecFlat     the flat-list browser (headers interleaved with          *)
(*                channels), src/unnamed/part_000                          *)
(*   SpecApp      the groups -> channels drill browser, src/App.tsx        *)
(*   SpecPlayer   the playback session, src/components/VideoPlayer.tsx     *)
(*   SpecRender   the virtualised rendering of the row list under scroll   *)
(*                and resize, renderVirtualItems of both App revisions     *)
(*   SpecListKeys the list branch of handleKeyDown of both App revisions   *)
(*                applied to bounded row lists and focus indices           *)
(*   SpecEpgLookup getCurrentProgram applied to bounded program lists     *)
(*   SpecEpg       loadData of src/App.tsx with its EPG request           *)
(*   SpecScroll    the list of src/App.tsx with its scroll container      *)
(*   SpecReady     the listeners of the video effect that end Loading      *)
(*   SpecOverlay   the channel list overlay of the player                  *)
(*   SpecRetry     the retry timer of the player                           *)
(* A specification moves only its own variables; the others stay at the    *)
(* idle values of its Idle predicate.                                      *)
(*                                                                         *)
(* Indices are zero-based as in the source: row i of a JavaScript array    *)
(* `a` is a[i + 1] of the TLA+ sequence, read with At(a, i).               *)
(***************************************************************************)
EXTENDS Integers, Sequences, FiniteSets, TLC

VARIABLES
    \* ---- SpecFlatten: input, view and output of one flatten call
    inGroups,        \* the ChannelGroup[] handed to the flattening code
    inView,          \* "none" | "flat" | "groups" | "channels"
    inDrill,         \* zero-based position of the drilled group ("channels")
    outItems,        \* FlatItem[] returned
    outTotal,        \* totalHeight returned
    \* ---- SpecFlat: src/unnamed/part_000 App state
    fPlaylist,       \* playlist
    fFetching,       \* fetchPlaylist calls of loadData not yet resolved
    fLoading,        \* loading
    fActiveSection,  \* activeSection: "sidebar" | "list"
    fFocusedIndex,   \* focusedIndex, -1 is none
    fSelectedChannel,\* selectedChannel: 0 is null, else the channel id
    fThrown,         \* TRUE once a key handler has thrown a TypeError
    fEv,             \* the event handled last
    \* ---- SpecApp: src/App.tsx App state
    aActiveCategory, \* activeCategory
    aFetches,        \* per category, the fetchPlaylist calls not yet resolved
    aPlaylist,       \* playlist
    aLoading,        \* loading
    aSelectedChannel,\* selectedChannel: 0 is null, else the channel id
    aSelectedGroup,  \* selectedGroup: NoGroup is null
    aActiveSection,  \* activeSection
    aFocusedIndex,   \* focusedIndex, -1 is none
    aSavedGroupIndex,\* savedGroupIndex
    aEv,             \* the event handled last
    aDrillFrom,      \* history: the focus index the last drill started from
    aDrillTrail,     \* history: "none", or since the last drill "fresh" (no
                     \* event yet) or "moved" (only Up/Down/PageUp/PageDown/hover)
    \* ---- SpecPlayer: src/components/VideoPlayer.tsx and its platform
    pPlatform,       \* "native" | "hlsjs" | "none": what canPlayType and window.Hls offer
    pMounted,        \* the VideoPlayer is mounted (App's selectedChannel is set)
    pChannel,        \* the channel prop: 0 when unmounted, else the channel id
    pHlsRef,         \* hlsRef.current: [st |-> "null" | "live" | "destroyed", ch]
    pLeaked,         \* per channel, live Hls instances hlsRef no longer refers to
    pRetryTimer,     \* the pending retry timer: 0, else the channel of its closure
    pIsLoading,      \* isLoading
    pVideoSrc,       \* video.src set by loadStream: 0, else the channel of the url
    pIsListOpen,     \* isListOpen
    pViewMode,       \* viewMode: "channels" | "groups"
    pFocusArea,      \* focusArea: "list" | "sidebar"
    pHist,           \* window.history entries: "app" or "sentinel" (playerOpen)
    pPos,            \* position of the current history entry (1-based)
    pPendingBack,    \* history.back() traversals called for and not yet made
    pEv,             \* the event handled last
    pBasePos,        \* history: pPos before the session started (0: no session yet)
    pOwed,           \* history: the channel whose engine failed fatally in the
                     \* active session with no load attempt for it since (0: none)
    \* ---- SpecRender: renderVirtualItems of src/App.tsx and src/unnamed/part_000
    vRevision,       \* "App" | "part_000": whose renderVirtualItems runs
    vItems,          \* flatItems
    vLoading,        \* loading
    vScrollTop,      \* scrollTop
    vContainerHeight,\* containerHeight
    vRendered,       \* the rows the last render returned (<< >> for null)
    vEv,             \* the event handled last
    \* ---- SpecListKeys: handleKeyDown in the list, both revisions
    kRevision,       \* "App" | "part_000": whose handleKeyDown runs
    kItems,          \* flatItems
    kFocusedIndex,   \* focusedIndex
    kPrevIndex,      \* history: focusedIndex before the key handled last
    kThrown,         \* TRUE once the handler has thrown a TypeError
    kEv,             \* the key handled last
    \* ---- SpecEpgLookup: getCurrentProgram of src/unnamed/part_004
    gPrograms,       \* programs: the EPGProgram[] of a channel (<< >> also for undefined)
    gNow,            \* new Date(): the instant of the call
    gCurrent,        \* the program returned, NoProgram for null
    gEv,             \* "init", or "getCurrentProgram" once it has returned
    \* ---- SpecEpg: loadData of src/App.tsx and its EPG request
    eActiveCategory, \* activeCategory
    eLoads,          \* ghost: the number of loadData runs started; the latest run
    ePlaylistPending,\* the runs awaiting fetchPlaylist
    eEpgPending,     \* the runs whose fetchEPG promise is not settled
    eLoading,        \* loading
    eEpgData,        \* epgData: 0 for {}, else the run whose result it holds
    ePlaylistOf,     \* playlist: 0 for [], else the run whose result it holds
    eEv,             \* the last step
    \* ---- SpecScroll: the scrolling list of src/App.tsx
    sPlaylist,       \* playlist, as the last fetch left it
    sSelectedGroup,  \* selectedGroup, NoGroup for null
    sActiveSection,  \* activeSection
    sFocusedIndex,   \* focusedIndex
    sSavedGroupIndex,\* savedGroupIndex
    sDomScrollTop,   \* scrollRef.current.scrollTop
    sScrollTop,      \* scrollTop, the offset handleScroll recorded
    sClientHeight,   \* scrollRef.current.clientHeight
    sEv,             \* the last step
    \* ---- SpecReady: the readiness listeners of the video effect
    rPlatform,       \* "native" or "hlsjs"
    rMounted,        \* a VideoPlayer is mounted
    rIsLoading,      \* the isLoading state
    rPaused,         \* video.paused
    rTimeListeners,  \* the isLoading values the 'timeupdate' listeners closed over
    rPlayCmd,        \* the last step called video.play()
    rWasLoading,     \* isLoading before the last step
    rEv,             \* the last event
    \* ---- SpecOverlay: the channel list overlay of the player
    oPlaylist,       \* the playlist prop
    oChannel,        \* the channel prop, NoChannel once the parent has none
    oCurrentList,    \* currentChannelList
    oIsListOpen,     \* isListOpen
    oViewMode,       \* viewMode
    oFocusArea,      \* focusArea
    oSelectedIndex,  \* selectedIndex
    oEv,             \* the last event
    \* ---- SpecRetry: the retry timer of the player (VideoPlayer.tsx 165-227)
    tPlatform,       \* "native" or "hls" (canPlayType, line 177)
    tMounted,        \* the player is mounted
    tNow,            \* the clock, in seconds
    tTimers,         \* pending setTimeout entries [id, due]
    tNextId,         \* the handle the next setTimeout returns
    tRef,            \* retryTimeoutRef.current (0: null)
    tRefLive,        \* hlsRef.current is an engine not destroyed
    tLeaked,         \* live engines no reference points to
    tLastTrigger,    \* time of the last retry trigger (-1: none)
    tBurst,          \* triggers of the burst: 1 plus timers replaced
    tLoads,          \* timer load attempts since the last trigger
    tEv              \* the last step taken

(***************************************************************************)
(* Bounds of the model.                                                    *)
(***************************************************************************)
MaxChannels == 2
MaxGroups   == 3
MaxFetches  == 2
MaxLeaked   == 2
MaxPending  == 2
NumStreams  == 2
MaxRows     == 6
ScrollStep  == 30
MaxScrollSteps == 30
MaxViewSteps   == 2
MaxTime        == 5
MaxLoads       == 3

(***************************************************************************)
(* Strings are sequences of one-character strings, so that toLowerCase and *)
(* the code-unit order of Array.prototype.sort can be computed.            *)
(***************************************************************************)
Alphabet ==
    << "A","B","C","D","E","F","G","H","I","J","K","L","M",
       "N","O","P","Q","R","S","T","U","V","W","X","Y","Z",
       "a","b","c","d","e","f","g","h","i","j","k","l","m",
       "n","o","p","q","r","s","t","u","v","w","x","y","z" >>

AlphaIdx(c) == CHOOSE i \in 1..Len(Alphabet) : Alphabet[i] = c

\* UTF-16 code unit of a letter: "A" is 65, "a" is 97
CharCode(c) == IF AlphaIdx(c) <= 26 THEN 64 + AlphaIdx(c) ELSE 70 + AlphaIdx(c)

\* String.prototype.toLowerCase on one letter
LowerChar(c) == IF AlphaIdx(c) <= 26 THEN Alphabet[AlphaIdx(c) + 26] ELSE c

ToLowerCase(s) == [i \in 1..Len(s) |-> LowerChar(s[i])]

\* a < b in the code-unit order Array.prototype.sort() uses by default
RECURSIVE StrLess(_, _)
StrLess(a, b) ==
    IF Len(b) = 0 THEN FALSE
    ELSE IF Len(a) = 0 THEN TRUE
    ELSE IF CharCode(Head(a)) # CharCode(Head(b))
         THEN CharCode(Head(a)) < CharCode(Head(b))
         ELSE StrLess(Tail(a), Tail(b))

TNews          == << "N","e","w","s" >>
TSports        == << "S","p","o","r","t","s" >>
TUncategorized == << "U","n","c","a","t","e","g","o","r","i","z","e","d" >>
Tuncategorized == << "u","n","c","a","t","e","g","o","r","i","z","e","d" >>
Tzdf           == << "z","d","f" >>

\* the group-title attribute values the modelled playlists use
TitlePool == { TNews, TSports, TUncategorized, Tuncategorized, Tzdf }

\* the literal 'uncategorized' the flattening code compares with
UNCATEGORIZED == Tuncategorized

(***************************************************************************)
(* src/services/m3uService.ts parseM3U: groups are keyed by title, a group *)
(* exists only once a channel was pushed to it, and the keys are sorted.   *)
(***************************************************************************)
RECURSIVE SortTitles(_)
SortTitles(S) ==
    IF S = {} THEN << >>
    ELSE LET m == CHOOSE t \in S : \A u \in S \ {t} : StrLess(t, u)
         IN  << m >> \o SortTitles(S \ {m})

\* the position of a title in the sorted pool: it makes channel ids unique
TitleRank(t) == CHOOSE r \in 1..Cardinality(TitlePool) : SortTitles(TitlePool)[r] = t

\* Channel: id stands for crypto.randomUUID(), unique per channel
MkChannel(t, k) == [id |-> 10 * TitleRank(t) + k, group |-> t]

MkGroup(t, n) == [title |-> t, channels |-> [k \in 1..n |-> MkChannel(t, k)]]

\* the ChannelGroup[] with the titles of T in sorted order and size[t] channels
GroupList(T, size) ==
    LET ts == SortTitles(T)
    IN  [i \in 1..Len(ts) |-> MkGroup(ts[i], size[ts[i]])]

TitleSets == { T \in SUBSET TitlePool : Cardinality(T) <= MaxGroups }

\* every sorted ChannelGroup[] of the type, groups without channels included
AnyGroupLists ==
    UNION { { GroupList(T, size) : size \in [T -> 0..MaxChannels] } : T \in TitleSets }

\* the group titles of the playlists the browsers fetch; parseM3U returns
\* sorted titles and no group without a channel
BrowseTitles == { TNews, TSports, TUncategorized }

\* what fetchPlaylist resolves with: a parsed playlist, or [] when it failed
FetchedPlaylists ==
    UNION { { GroupList(T, size) : size \in [T -> 1..MaxChannels] } :
            T \in { S \in SUBSET BrowseTitles : Cardinality(S) <= MaxGroups } }

NoChannel == [id |-> 0, group |-> << >>]
NoGroup   == [title |-> << >>, channels |-> << >>]

At(a, i) == a[i + 1]

(***************************************************************************)
(* Virtualization constants (both revisions of App).                       *)
(***************************************************************************)
CHANNEL_HEIGHT == 90
HEADER_HEIGHT  == 50

(***************************************************************************)
(* src/unnamed/part_000 lines 68-104: the flat list with headers.          *)
(* The accumulator holds the locals items, currentTop and channelCounter.  *)
(***************************************************************************)
FlatStart == [items |-> << >>, currentTop |-> 0, channelCounter |-> 1]

\* lines 78-86
PushHeaderMissingAdvance(acc, group) ==
    [acc EXCEPT !.items = Append(acc.items,
        [type |-> "header", id |-> << "hdr", group.title >>, title |-> group.title,
         data |-> NoChannel, groupData |-> NoGroup, top |-> acc.currentTop,
         height |-> HEADER_HEIGHT, index |-> Len(acc.items), channelNumber |-> 0,
         count |-> 0])]

PushHeader(acc, group) ==
    [acc EXCEPT !.items = Append(acc.items,
        [type |-> "header", id |-> << "hdr", group.title >>, title |-> group.title,
         data |-> NoChannel, groupData |-> NoGroup, top |-> acc.currentTop,
         height |-> HEADER_HEIGHT, index |-> Len(acc.items), channelNumber |-> 0,
         count |-> 0]),
                !.currentTop = acc.currentTop + HEADER_HEIGHT]

\* lines 90-99 without channelCounter++
PushChannelKeepsCounter(acc, channel) ==
    [items |-> Append(acc.items,
        [type |-> "channel", id |-> channel.id, title |-> << >>,
         data |-> channel, groupData |-> NoGroup, top |-> acc.currentTop,
         height |-> CHANNEL_HEIGHT, index |-> Len(acc.items),
         channelNumber |-> acc.channelCounter, count |-> 0]),
     currentTop |-> acc.currentTop + CHANNEL_HEIGHT,
     channelCounter |-> acc.channelCounter]

\* lines 90-99
PushChannel(acc, channel) ==
    [items |-> Append(acc.items,
        [type |-> "channel", id |-> channel.id, title |-> << >>,
         data |-> channel, groupData |-> NoGroup, top |-> acc.currentTop,
         height |-> CHANNEL_HEIGHT, index |-> Len(acc.items),
         channelNumber |-> acc.channelCounter, count |-> 0]),
     currentTop |-> acc.currentTop + CHANNEL_HEIGHT,
     channelCounter |-> acc.channelCounter + 1]

\* lines 89-100: group.channels.forEach from position k on
RECURSIVE PushChannels(_, _, _)
PushChannels(acc, channels, k) ==
    IF k > Len(channels) THEN acc
    ELSE PushChannels(PushChannel(acc, channels[k]), channels, k + 1)

\* line 75
IsUncategorizedCaseSensitive(group) == group.title = UNCATEGORIZED

IsUncategorized(group) == ToLowerCase(group.title) = UNCATEGORIZED

\* lines 73-101: one iteration of playlist.forEach
FlatGroupStep(acc, group) ==
    IF Len(group.channels) = 0 THEN acc
    ELSE PushChannels(IF ~IsUncategorized(group) THEN PushHeader(acc, group) ELSE acc,
                      group.channels, 1)

RECURSIVE FlatGroups(_, _, _)
FlatGroups(acc, playlist, g) ==
    IF g > Len(playlist) THEN acc
    ELSE FlatGroups(FlatGroupStep(acc, playlist[g]), playlist, g + 1)

\* lines 68-104: { items, totalHeight }
FlatListItems(playlist) ==
    LET acc == FlatGroups(FlatStart, playlist, 1)
    IN  [items |-> acc.items, totalHeight |-> acc.currentTop]

(***************************************************************************)
(* src/App.tsx lines 76-115: the groups view and the channels-of-group     *)
(* view.                                                                   *)
(***************************************************************************)
\* lines 82-97 without the return of line 83
PushGroupRowKeepsEmpty(acc, group) ==
    [acc EXCEPT !.items = Append(acc.items,
        [type |-> "group", id |-> << "grp", group.title >>, title |-> group.title,
         data |-> NoChannel, groupData |-> group, top |-> acc.currentTop,
         height |-> CHANNEL_HEIGHT, index |-> Len(acc.items), channelNumber |-> 0,
         count |-> Len(group.channels)]),
                !.currentTop = acc.currentTop + CHANNEL_HEIGHT]

\* lines 82-97
PushGroupRow(acc, group) ==
    IF Len(group.channels) = 0 THEN acc
    ELSE [acc EXCEPT !.items = Append(acc.items,
            [type |-> "group", id |-> << "grp", group.title >>, title |-> group.title,
             data |-> NoChannel, groupData |-> group, top |-> acc.currentTop,
             height |-> CHANNEL_HEIGHT, index |-> Len(acc.items), channelNumber |-> 0,
             count |-> Len(group.channels)]),
                    !.currentTop = acc.currentTop + CHANNEL_HEIGHT]

RECURSIVE GroupRows(_, _, _)
GroupRows(acc, playlist, g) ==
    IF g > Len(playlist) THEN acc
    ELSE GroupRows(PushGroupRow(acc, playlist[g]), playlist, g + 1)

\* lines 100-111 with channelNumber: idx
PushGroupChannelZeroBased(acc, channel, idx) ==
    [acc EXCEPT !.items = Append(acc.items,
        [type |-> "channel", id |-> channel.id, title |-> << >>,
         data |-> channel, groupData |-> NoGroup, top |-> acc.currentTop,
         height |-> CHANNEL_HEIGHT, index |-> Len(acc.items),
         channelNumber |-> idx, count |-> 0]),
                !.currentTop = acc.currentTop + CHANNEL_HEIGHT]

\* lines 100-111: channelNumber is idx + 1
PushGroupChannel(acc, channel, idx) ==
    [acc EXCEPT !.items = Append(acc.items,
        [type |-> "channel", id |-> channel.id, title |-> << >>,
         data |-> channel, groupData |-> NoGroup, top |-> acc.currentTop,
         height |-> CHANNEL_HEIGHT, index |-> Len(acc.items),
         channelNumber |-> idx + 1, count |-> 0]),
                !.currentTop = acc.currentTop + CHANNEL_HEIGHT]

RECURSIVE GroupChannels(_, _, _)
GroupChannels(acc, channels, idx) ==
    IF idx >= Len(channels) THEN acc
    ELSE GroupChannels(PushGroupChannel(acc, At(channels, idx), idx), channels, idx + 1)

\* lines 76-115: selectedGroup is NoGroup for null
AppFlatItems(playlist, selectedGroup) ==
    LET acc == IF selectedGroup = NoGroup
               THEN GroupRows(FlatStart, playlist, 1)
               ELSE GroupChannels(FlatStart, selectedGroup.channels, 0)
    IN  [items |-> acc.items, totalHeight |-> acc.currentTop]

(***************************************************************************)
(* Variable groups and their idle values.                                  *)
(***************************************************************************)
flattenVars == << inGroups, inView, inDrill, outItems, outTotal >>
flatVars    == << fPlaylist, fFetching, fLoading, fActiveSection, fFocusedIndex,
                  fSelectedChannel, fThrown, fEv >>
appVars     == << aActiveCategory, aFetches, aPlaylist, aLoading, aSelectedChannel,
                  aSelectedGroup, aActiveSection, aFocusedIndex, aSavedGroupIndex,
                  aEv, aDrillFrom, aDrillTrail >>
engineVars  == << pHlsRef, pLeaked, pRetryTimer, pIsLoading, pVideoSrc, pOwed >>
overlayVars == << pIsListOpen, pViewMode, pFocusArea >>
historyVars == << pHist, pPos, pPendingBack >>
playerVars  == << pPlatform, pMounted, pChannel, engineVars, overlayVars, historyVars,
                  pEv, pBasePos >>
renderVars  == << vRevision, vItems, vLoading, vScrollTop, vContainerHeight,
                  vRendered, vEv >>
listKeyVars == << kRevision, kItems, kFocusedIndex, kPrevIndex, kThrown, kEv >>
lookupVars == << gPrograms, gNow, gCurrent, gEv >>
epgVars == << eActiveCategory, eLoads, ePlaylistPending, eEpgPending, eLoading, eEpgData, ePlaylistOf, eEv >>
scrollVars == << sPlaylist, sSelectedGroup, sActiveSection, sFocusedIndex, sSavedGroupIndex, sDomScrollTop, sScrollTop, sClientHeight, sEv >>
readyVars == << rPlatform, rMounted, rIsLoading, rPaused, rTimeListeners, rPlayCmd, rWasLoading, rEv >>
listVars == << oPlaylist, oChannel, oCurrentList, oIsListOpen, oViewMode, oFocusArea, oSelectedIndex, oEv >>
retryVars == << tPlatform, tMounted, tNow, tTimers, tNextId, tRef, tRefLive, tLeaked, tLastTrigger, tBurst, tLoads, tEv >>
vars == << flattenVars, flatVars, appVars, playerVars, renderVars, listKeyVars, lookupVars, epgVars, scrollVars, readyVars, listVars, retryVars >>

\* what the actions of one specification leave alone
flattenOthers == << flatVars, appVars, playerVars, renderVars, listKeyVars, lookupVars, epgVars, scrollVars, readyVars, listVars, retryVars >>
flatOthers == << flattenVars, appVars, playerVars, renderVars, listKeyVars, lookupVars, epgVars, scrollVars, readyVars, listVars, retryVars >>
appOthers == << flattenVars, flatVars, playerVars, renderVars, listKeyVars, lookupVars, epgVars, scrollVars, readyVars, listVars, retryVars >>
playerOthers == << flattenVars, flatVars, appVars, renderVars, listKeyVars, lookupVars, epgVars, scrollVars, readyVars, listVars, retryVars >>
renderOthers == << flattenVars, flatVars, appVars, playerVars, listKeyVars, lookupVars, epgVars, scrollVars, readyVars, listVars, retryVars >>
listKeyOthers == << flattenVars, flatVars, appVars, playerVars, renderVars, lookupVars, epgVars, scrollVars, readyVars, listVars, retryVars >>
lookupOthers == << flattenVars, flatVars, appVars, playerVars, renderVars, listKeyVars, epgVars, scrollVars, readyVars, listVars, retryVars >>
epgOthers == << flattenVars, flatVars, appVars, playerVars, renderVars, listKeyVars, lookupVars, scrollVars, readyVars, listVars, retryVars >>
scrollOthers == << flattenVars, flatVars, appVars, playerVars, renderVars, listKeyVars, lookupVars, epgVars, readyVars, listVars, retryVars >>
readyOthers == << flattenVars, flatVars, appVars, playerVars, renderVars, listKeyVars, lookupVars, epgVars, scrollVars, listVars, retryVars >>
listOthers == << flattenVars, flatVars, appVars, playerVars, renderVars, listKeyVars, lookupVars, epgVars, scrollVars, readyVars, retryVars >>
retryOthers == << flattenVars, flatVars, appVars, playerVars, renderVars, listKeyVars, lookupVars, epgVars, scrollVars, readyVars, listVars >>

\* the channels the player is given
Streams == 1..NumStreams

NullRef == [st |-> "null", ch |-> 0]

Categories == << "KANALER", "FOTBOLL" >>

IdleFlatten ==
    /\ inGroups = << >>
    /\ inView = "none"
    /\ inDrill = 0
    /\ outItems = << >>
    /\ outTotal = 0

IdleFlat ==
    /\ fPlaylist = << >>
    /\ fFetching = 0
    /\ fLoading = TRUE
    /\ fActiveSection = "sidebar"
    /\ fFocusedIndex = -1
    /\ fSelectedChannel = 0
    /\ fThrown = FALSE
    /\ fEv = "init"

IdleApp ==
    /\ aActiveCategory = Categories[1]
    /\ aFetches = [c \in {Categories[1], Categories[2]} |-> 0]
    /\ aPlaylist = << >>
    /\ aLoading = TRUE
    /\ aSelectedChannel = 0
    /\ aSelectedGroup = NoGroup
    /\ aActiveSection = "sidebar"
    /\ aFocusedIndex = -1
    /\ aSavedGroupIndex = 0
    /\ aEv = "init"
    /\ aDrillFrom = -1
    /\ aDrillTrail = "none"

IdlePlayer ==
    /\ pPlatform = "none"
    /\ pMounted = FALSE
    /\ pChannel = 0
    /\ pHlsRef = NullRef
    /\ pLeaked = [c \in Streams |-> 0]
    /\ pRetryTimer = 0
    /\ pIsLoading = FALSE
    /\ pVideoSrc = 0
    /\ pIsListOpen = FALSE
    /\ pViewMode = "channels"
    /\ pFocusArea = "list"
    /\ pHist = << "app" >>
    /\ pPos = 1
    /\ pPendingBack = 0
    /\ pEv = "init"
    /\ pBasePos = 0
    /\ pOwed = 0

IdleRender ==
    /\ vRevision = "App"
    /\ vItems = << >>
    /\ vLoading = TRUE
    /\ vScrollTop = 0
    /\ vContainerHeight = 0
    /\ vRendered = << >>
    /\ vEv = "init"

IdleListKeys ==
    /\ kRevision = "App"
    /\ kItems = << >>
    /\ kFocusedIndex = -1
    /\ kPrevIndex = -1
    /\ kThrown = FALSE
    /\ kEv = "init"

IdleEpgLookup ==
    /\ gPrograms = << >>
    /\ gNow = 0
    /\ gCurrent = [title |-> 0, start |-> 0, end |-> 0]
    /\ gEv = "init"

IdleEpg ==
    /\ eActiveCategory = Categories[1]
    /\ eLoads = 0
    /\ ePlaylistPending = {}
    /\ eEpgPending = {}
    /\ eLoading = TRUE
    /\ eEpgData = 0
    /\ ePlaylistOf = 0
    /\ eEv = "init"

IdleScroll ==
    /\ sPlaylist = << >>
    /\ sSelectedGroup = [title |-> << >>, channels |-> << >>]
    /\ sActiveSection = "sidebar"
    /\ sFocusedIndex = -1
    /\ sSavedGroupIndex = 0
    /\ sDomScrollTop = 0
    /\ sScrollTop = 0
    /\ sClientHeight = 0
    /\ sEv = "init"

IdleReady ==
    /\ rPlatform = "none"
    /\ rMounted = FALSE
    /\ rIsLoading = FALSE
    /\ rPaused = TRUE
    /\ rTimeListeners = {}
    /\ rPlayCmd = FALSE
    /\ rWasLoading = FALSE
    /\ rEv = "idle"

IdleOverlay ==
    /\ oPlaylist = << >>
    /\ oChannel = NoChannel
    /\ oCurrentList = << >>
    /\ oIsListOpen = FALSE
    /\ oViewMode = "channels"
    /\ oFocusArea = "list"
    /\ oSelectedIndex = 0
    /\ oEv = "idle"

IdleRetry ==
    /\ tPlatform = "native"
    /\ tMounted = FALSE
    /\ tNow = 0
    /\ tTimers = {}
    /\ tNextId = 1
    /\ tRef = 0
    /\ tRefLive = FALSE
    /\ tLeaked = 0
    /\ tLastTrigger = -1
    /\ tBurst = 0
    /\ tLoads = 0
    /\ tEv = "idle"

(***************************************************************************)
(* SpecFlatten: the flattening code applied once to a bounded group list.  *)
(***************************************************************************)
InitFlatten ==
    /\ inGroups \in AnyGroupLists
    /\ inView = "none"
    /\ inDrill = 0
    /\ outItems = << >>
    /\ outTotal = 0
    /\ IdleFlat
    /\ IdleApp
    /\ IdlePlayer
    /\ IdleRender
    /\ IdleListKeys
    /\ IdleEpgLookup
    /\ IdleEpg
    /\ IdleScroll
    /\ IdleReady
    /\ IdleOverlay
    /\ IdleRetry

\* part_000 lines 68-104
FlattenFlatList ==
    /\ inView = "none"
    /\ inView' = "flat"
    /\ outItems' = FlatListItems(inGroups).items
    /\ outTotal' = FlatListItems(inGroups).totalHeight
    /\ UNCHANGED << inGroups, inDrill, flattenOthers >>

\* App.tsx lines 80-97 (selectedGroup is null)
FlattenGroupsOnly ==
    /\ inView = "none"
    /\ inView' = "groups"
    /\ outItems' = AppFlatItems(inGroups, NoGroup).items
    /\ outTotal' = AppFlatItems(inGroups, NoGroup).totalHeight
    /\ UNCHANGED << inGroups, inDrill, flattenOthers >>

\* App.tsx lines 98-112 (selectedGroup is a group of the playlist)
FlattenChannelsOfGroup ==
    /\ inView = "none"
    /\ \E g \in 0..(Len(inGroups) - 1) :
          /\ inDrill' = g
          /\ outItems' = AppFlatItems(inGroups, At(inGroups, g)).items
          /\ outTotal' = AppFlatItems(inGroups, At(inGroups, g)).totalHeight
    /\ inView' = "channels"
    /\ UNCHANGED << inGroups, flattenOthers >>

NextFlatten == FlattenFlatList \/ FlattenGroupsOnly \/ FlattenChannelsOfGroup

SpecFlatten == InitFlatten /\ [][NextFlatten]_vars

(***************************************************************************)
(* SpecFlat: the flat-list browser, src/unnamed/part_000.                  *)
(* Every handler runs to completion and React re-renders before the next   *)
(* event, so flatItems is always FlatListItems(playlist).items.            *)
(***************************************************************************)
fFlatItems == FlatListItems(fPlaylist).items

\* lines 25-40 and the first run of the loadData effect (lines 43-50)
InitFlat ==
    /\ fPlaylist = << >>
    /\ fFetching = 1
    /\ fLoading = TRUE
    /\ fActiveSection = "sidebar"
    /\ fFocusedIndex = -1
    /\ fSelectedChannel = 0
    /\ fThrown = FALSE
    /\ fEv = "init"
    /\ IdleFlatten
    /\ IdleApp
    /\ IdlePlayer
    /\ IdleRender
    /\ IdleListKeys
    /\ IdleEpgLookup
    /\ IdleEpg
    /\ IdleScroll
    /\ IdleReady
    /\ IdleOverlay
    /\ IdleRetry

\* lines 50-56: fetchPlaylist resolves (with << >> when it failed)
FPlaylistArrives ==
    /\ fFetching > 0
    /\ \E groups \in FetchedPlaylists : fPlaylist' = groups
    /\ fFetching' = fFetching - 1
    /\ fLoading' = FALSE
    /\ fActiveSection' = "sidebar"
    /\ fFocusedIndex' = -1
    /\ fEv' = "PlaylistArrives"
    /\ UNCHANGED << fSelectedChannel, fThrown, flatOthers >>

\* lines 172-178 (Enter on another category's button) and Sidebar
\* onSelectCategory: activeCategory changes and loadData runs to its await
FSelectCategory ==
    /\ fSelectedChannel = 0
    /\ fFetching < MaxFetches
    /\ fLoading' = TRUE
    /\ fPlaylist' = << >>
    /\ fFetching' = fFetching + 1
    /\ fEv' = "SelectCategory"
    /\ UNCHANGED << fActiveSection, fFocusedIndex, fSelectedChannel, fThrown, flatOthers >>

\* lines 136-147: the handler is installed and does not return early
FKeysHandled == fSelectedChannel = 0 /\ ~fLoading

\* line 154 with the first row taken whatever its type
FirstRowIdx(items) == IF Len(items) > 0 THEN 0 ELSE -1

\* line 154: flatItems.findIndex(i => i.type === 'channel')
FirstChannelIdx(items) ==
    IF \E i \in 0..(Len(items) - 1) : At(items, i).type = "channel"
    THEN CHOOSE i \in 0..(Len(items) - 1) :
            /\ At(items, i).type = "channel"
            /\ \A j \in 0..(i - 1) : At(items, j).type # "channel"
    ELSE -1

\* lines 150-159
FSidebarArrowRight ==
    /\ FKeysHandled
    /\ fActiveSection = "sidebar"
    /\ fActiveSection' = "list"
    /\ fFocusedIndex' =
          IF fFocusedIndex = -1
          THEN (IF FirstChannelIdx(fFlatItems) # -1 THEN FirstChannelIdx(fFlatItems) ELSE 0)
          ELSE fFocusedIndex
    /\ fEv' = "ArrowRight"
    /\ UNCHANGED << fPlaylist, fFetching, fLoading, fSelectedChannel, fThrown, flatOthers >>

\* lines 181-188
FListArrowLeft ==
    /\ FKeysHandled
    /\ fActiveSection = "list"
    /\ fActiveSection' = "sidebar"
    /\ fEv' = "ArrowLeft"
    /\ UNCHANGED << fPlaylist, fFetching, fLoading, fFocusedIndex, fSelectedChannel,
                    fThrown, flatOthers >>

\* an index the array has
InRange(items, i) == 0 <= i /\ i < Len(items)

\* lines 189-195
FListEnter ==
    /\ FKeysHandled
    /\ fActiveSection = "list"
    /\ fSelectedChannel' =
          IF InRange(fFlatItems, fFocusedIndex) /\ At(fFlatItems, fFocusedIndex).type = "channel"
          THEN At(fFlatItems, fFocusedIndex).data.id
          ELSE fSelectedChannel
    /\ fEv' = "Enter"
    /\ UNCHANGED << fPlaylist, fFetching, fLoading, fActiveSection, fFocusedIndex,
                    fThrown, flatOthers >>

\* lines 198-201: PageUp adds 5 and PageDown subtracts 5 in this revision
FlatKeyDelta(key) ==
    CASE key = "ArrowUp"   -> -1
      [] key = "ArrowDown" -> 1
      [] key = "PageUp"    -> 5
      [] key = "PageDown"  -> -5

\* lines 203 and 208 without lines 204 and 209
ClampIndexLowOnly(n, length) == IF n < 0 THEN 0 ELSE n

\* lines 203-204 and 208-209
ClampIndex(n, length) ==
    LET a == IF n < 0 THEN 0 ELSE n
    IN  IF a >= length THEN length - 1 ELSE a

\* lines 205-207
SkipHeader(items, nextIndex, focusedIndex) ==
    IF At(items, nextIndex).type = "header"
    THEN (IF nextIndex > focusedIndex THEN nextIndex + 1 ELSE nextIndex - 1)
    ELSE nextIndex

\* line 205 reads flatItems[nextIndex].type: a TypeError when there is no such row
FlatMoveThrows(items, focusedIndex, key) ==
    ~InRange(items, ClampIndex(focusedIndex + FlatKeyDelta(key), Len(items)))

\* lines 197-209
FlatNextIndex(items, focusedIndex, key) ==
    ClampIndex(SkipHeader(items,
                          ClampIndex(focusedIndex + FlatKeyDelta(key), Len(items)),
                          focusedIndex),
               Len(items))

\* lines 197-211
FListMove(key) ==
    /\ FKeysHandled
    /\ fActiveSection = "list"
    /\ IF FlatMoveThrows(fFlatItems, fFocusedIndex, key)
       THEN fThrown' = TRUE /\ UNCHANGED fFocusedIndex
       ELSE /\ fFocusedIndex' = FlatNextIndex(fFlatItems, fFocusedIndex, key)
            /\ UNCHANGED fThrown
    /\ fEv' = key
    /\ UNCHANGED << fPlaylist, fFetching, fLoading, fActiveSection, fSelectedChannel,
                    flatOthers >>

FListArrowUp   == FListMove("ArrowUp")
FListArrowDown == FListMove("ArrowDown")
FListPageUp    == FListMove("PageUp")
FListPageDown  == FListMove("PageDown")

\* lines 220-221, 242-252: header rows have no pointer handlers, channel rows
\* are rendered only when not loading
FChannelRows ==
    IF fLoading \/ fSelectedChannel # 0 THEN {}
    ELSE { i \in 0..(Len(fFlatItems) - 1) : At(fFlatItems, i).type = "channel" }

\* lines 268-271: onMouseEnter of a channel row
FHover ==
    /\ \E i \in FChannelRows : fFocusedIndex' = i
    /\ fActiveSection' = "list"
    /\ fEv' = "Hover"
    /\ UNCHANGED << fPlaylist, fFetching, fLoading, fSelectedChannel, fThrown, flatOthers >>

\* lines 272-276: onClick of a channel row
FClick ==
    /\ \E i \in FChannelRows :
          /\ fFocusedIndex' = i
          /\ fSelectedChannel' = At(fFlatItems, i).data.id
    /\ fActiveSection' = "list"
    /\ fEv' = "Click"
    /\ UNCHANGED << fPlaylist, fFetching, fLoading, fThrown, flatOthers >>

\* line 333: handleClosePlayer
FClosePlayer ==
    /\ fSelectedChannel # 0
    /\ fSelectedChannel' = 0
    /\ fEv' = "ClosePlayer"
    /\ UNCHANGED << fPlaylist, fFetching, fLoading, fActiveSection, fFocusedIndex,
                    fThrown, flatOthers >>

NextFlat ==
    \/ FPlaylistArrives
    \/ FSelectCategory
    \/ FSidebarArrowRight
    \/ FListArrowLeft
    \/ FListEnter
    \/ FListArrowUp
    \/ FListArrowDown
    \/ FListPageUp
    \/ FListPageDown
    \/ FHover
    \/ FClick
    \/ FClosePlayer

SpecFlat == InitFlat /\ [][NextFlat]_vars

\* C3: in the flat-list browser, after any sequence of Up/Down key events
\* handled in the List region the focus index is within [0, rowCount-1] and the
\* row at the focus index is never a header row (stated for the row sequences
\* that have a row; the empty one has no index to be within).
C3_FocusOnChannel ==
    (fEv \in {"ArrowUp", "ArrowDown"} /\ Len(fFlatItems) > 0) =>
        /\ InRange(fFlatItems, fFocusedIndex)
        /\ At(fFlatItems, fFocusedIndex).type # "header"

(***************************************************************************)
(* SpecApp: the groups -> channels drill browser, src/App.tsx.             *)
(***************************************************************************)
aFlatItems == AppFlatItems(aPlaylist, aSelectedGroup).items

OtherCategory(c) == IF c = Categories[1] THEN Categories[2] ELSE Categories[1]

\* lines 28-45 and the first run of the loadData effect (lines 48-56)
InitApp ==
    /\ aActiveCategory = Categories[1]
    /\ aFetches = [c \in {Categories[1], Categories[2]} |-> IF c = Categories[1] THEN 1 ELSE 0]
    /\ aPlaylist = << >>
    /\ aLoading = TRUE
    /\ aSelectedChannel = 0
    /\ aSelectedGroup = NoGroup
    /\ aActiveSection = "sidebar"
    /\ aFocusedIndex = -1
    /\ aSavedGroupIndex = 0
    /\ aEv = "init"
    /\ aDrillFrom = -1
    /\ aDrillTrail = "none"
    /\ IdleFlatten
    /\ IdleFlat
    /\ IdlePlayer
    /\ IdleRender
    /\ IdleListKeys
    /\ IdleEpgLookup
    /\ IdleEpg
    /\ IdleScroll
    /\ IdleReady
    /\ IdleOverlay
    /\ IdleRetry

\* lines 56-63: a fetchPlaylist of loadData resolves (with [] when it failed)
APlaylistArrives ==
    /\ \E c \in DOMAIN aFetches :
          /\ aFetches[c] > 0
          /\ aFetches' = [aFetches EXCEPT ![c] = @ - 1]
    /\ \E groups \in FetchedPlaylists : aPlaylist' = groups
    /\ aLoading' = FALSE
    /\ aActiveSection' = "sidebar"
    /\ aFocusedIndex' = -1
    /\ aSavedGroupIndex' = 0
    /\ aEv' = "PlaylistArrives"
    /\ aDrillTrail' = "none"
    /\ UNCHANGED << aActiveCategory, aSelectedChannel, aSelectedGroup, aDrillFrom, appOthers >>

\* lines 144-149: the key handler is installed and does not return early
AKeysHandled == aSelectedChannel = 0 /\ ~aLoading

\* lines 195-201 (Enter on the other category's button) and Sidebar.tsx line 79
\* (click on it): activeCategory changes and loadData runs to its await,
\* lines 49-56
ASelectCategory ==
    /\ aSelectedChannel = 0
    /\ aFetches[Categories[1]] + aFetches[Categories[2]] < MaxFetches
    /\ aActiveCategory' = OtherCategory(aActiveCategory)
    /\ aFetches' = [aFetches EXCEPT ![OtherCategory(aActiveCategory)] = @ + 1]
    /\ aLoading' = TRUE
    /\ aPlaylist' = << >>
    /\ aSelectedGroup' = NoGroup
    /\ aEv' = "SelectCategory"
    /\ aDrillTrail' = "none"
    /\ UNCHANGED << aSelectedChannel, aActiveSection, aFocusedIndex, aSavedGroupIndex,
                    aDrillFrom, appOthers >>

\* lines 161-171 with focus reset to the first row instead of the saved one
ABackResetsFocus ==
    /\ AKeysHandled
    /\ IF aSelectedGroup # NoGroup
       THEN /\ aSelectedGroup' = NoGroup
            /\ aFocusedIndex' = 0
            /\ aActiveSection' = "list"
       ELSE UNCHANGED << aSelectedGroup, aFocusedIndex, aActiveSection >>
    /\ aEv' = "Back"
    /\ UNCHANGED << aActiveCategory, aFetches, aPlaylist, aLoading, aSelectedChannel,
                    aSavedGroupIndex, aDrillFrom, aDrillTrail, appOthers >>

\* lines 161-171: Backspace, Escape or key code 461
ABack ==
    /\ AKeysHandled
    /\ IF aSelectedGroup # NoGroup
       THEN /\ aSelectedGroup' = NoGroup
            /\ aFocusedIndex' = aSavedGroupIndex
            /\ aActiveSection' = "list"
       ELSE UNCHANGED << aSelectedGroup, aFocusedIndex, aActiveSection >>
    /\ aEv' = "Back"
    /\ UNCHANGED << aActiveCategory, aFetches, aPlaylist, aLoading, aSelectedChannel,
                    aSavedGroupIndex, aDrillFrom, aDrillTrail, appOthers >>

\* lines 173-182
ASidebarArrowRight ==
    /\ AKeysHandled
    /\ aActiveSection = "sidebar"
    /\ aActiveSection' = "list"
    /\ aFocusedIndex' = IF aFocusedIndex = -1 THEN 0 ELSE aFocusedIndex
    /\ aEv' = "ArrowRight"
    /\ aDrillTrail' = "none"
    /\ UNCHANGED << aActiveCategory, aFetches, aPlaylist, aLoading, aSelectedChannel,
                    aSelectedGroup, aSavedGroupIndex, aDrillFrom, appOthers >>

\* ArrowLeft that also drops the focus index
AListArrowLeftClearsFocus ==
    /\ AKeysHandled
    /\ aActiveSection = "list"
    /\ aActiveSection' = "sidebar"
    /\ aFocusedIndex' = -1
    /\ aEv' = "ArrowLeft"
    /\ aDrillTrail' = "none"
    /\ UNCHANGED << aActiveCategory, aFetches, aPlaylist, aLoading, aSelectedChannel,
                    aSelectedGroup, aSavedGroupIndex, aDrillFrom, appOthers >>

\* lines 205-212
AListArrowLeft ==
    /\ AKeysHandled
    /\ aActiveSection = "list"
    /\ aActiveSection' = "sidebar"
    /\ aEv' = "ArrowLeft"
    /\ aDrillTrail' = "none"
    /\ UNCHANGED << aActiveCategory, aFetches, aPlaylist, aLoading, aSelectedChannel,
                    aSelectedGroup, aFocusedIndex, aSavedGroupIndex, aDrillFrom, appOthers >>

\* lines 213-229
AListEnter ==
    /\ AKeysHandled
    /\ aActiveSection = "list"
    /\ aEv' = "Enter"
    /\ IF ~InRange(aFlatItems, aFocusedIndex)
       THEN /\ aDrillTrail' = "none"
            /\ UNCHANGED << aSavedGroupIndex, aSelectedGroup, aFocusedIndex,
                            aSelectedChannel, aDrillFrom >>
       ELSE IF At(aFlatItems, aFocusedIndex).type = "group"
       THEN /\ aSavedGroupIndex' = aFocusedIndex
            /\ aSelectedGroup' = At(aFlatItems, aFocusedIndex).groupData
            /\ aFocusedIndex' = 0
            /\ aDrillFrom' = aFocusedIndex
            /\ aDrillTrail' = "fresh"
            /\ UNCHANGED aSelectedChannel
       ELSE /\ aSelectedChannel' = At(aFlatItems, aFocusedIndex).data.id
            /\ aDrillTrail' = "none"
            /\ UNCHANGED << aSavedGroupIndex, aSelectedGroup, aFocusedIndex, aDrillFrom >>
    /\ UNCHANGED << aActiveCategory, aFetches, aPlaylist, aLoading, aActiveSection, appOthers >>

\* lines 231-235
AppKeyDelta(key) ==
    CASE key = "ArrowUp"   -> -1
      [] key = "ArrowDown" -> 1
      [] key = "PageUp"    -> -5
      [] key = "PageDown"  -> 5

\* lines 231-238
AppNextIndex(items, focusedIndex, key) ==
    ClampIndex(focusedIndex + AppKeyDelta(key), Len(items))

\* since the last drill only moves and hovers happened
TrailAfterMove(trail) == IF trail = "none" THEN "none" ELSE "moved"

\* lines 231-240
AListMove(key) ==
    /\ AKeysHandled
    /\ aActiveSection = "list"
    /\ aFocusedIndex' = AppNextIndex(aFlatItems, aFocusedIndex, key)
    /\ aEv' = key
    /\ aDrillTrail' = TrailAfterMove(aDrillTrail)
    /\ UNCHANGED << aActiveCategory, aFetches, aPlaylist, aLoading, aSelectedChannel,
                    aSelectedGroup, aActiveSection, aSavedGroupIndex, aDrillFrom, appOthers >>

AListArrowUp   == AListMove("ArrowUp")
AListArrowDown == AListMove("ArrowDown")
AListPageUp    == AListMove("PageUp")
AListPageDown  == AListMove("PageDown")

\* lines 249-250, 276: rows exist only when not loading; the player covers them
ARows ==
    IF aLoading \/ aSelectedChannel # 0 THEN {} ELSE 0..(Len(aFlatItems) - 1)

\* lines 283-292 and 339-348: onMouseEnter / onMouseMove of a row
AHover ==
    /\ \E i \in ARows : aFocusedIndex' = i
    /\ aActiveSection' = "list"
    /\ aEv' = "Hover"
    /\ aDrillTrail' = TrailAfterMove(aDrillTrail)
    /\ UNCHANGED << aActiveCategory, aFetches, aPlaylist, aLoading, aSelectedChannel,
                    aSelectedGroup, aSavedGroupIndex, aDrillFrom, appOthers >>

\* lines 293-302: onClick of a group row
AClickGroup ==
    /\ \E i \in ARows :
          /\ At(aFlatItems, i).type = "group"
          /\ aSavedGroupIndex' = i
          /\ aSelectedGroup' = At(aFlatItems, i).groupData
          /\ aDrillFrom' = i
    /\ aFocusedIndex' = 0
    /\ aActiveSection' = "list"
    /\ aEv' = "ClickGroup"
    /\ aDrillTrail' = "fresh"
    /\ UNCHANGED << aActiveCategory, aFetches, aPlaylist, aLoading, aSelectedChannel, appOthers >>

\* lines 349-353: onClick of a channel row
AClickChannel ==
    /\ \E i \in ARows :
          /\ At(aFlatItems, i).type = "channel"
          /\ aFocusedIndex' = i
          /\ aSelectedChannel' = At(aFlatItems, i).data.id
    /\ aActiveSection' = "list"
    /\ aEv' = "ClickChannel"
    /\ aDrillTrail' = "none"
    /\ UNCHANGED << aActiveCategory, aFetches, aPlaylist, aLoading, aSelectedGroup,
                    aSavedGroupIndex, aDrillFrom, appOthers >>

\* line 455: the player asks for another channel of the playlist
\* (onChannelSelect = setSelectedChannel)
AZap ==
    /\ aSelectedChannel # 0
    /\ \E g \in 1..Len(aPlaylist) :
          \E k \in 1..Len(aPlaylist[g].channels) :
             /\ aPlaylist[g].channels[k].id # aSelectedChannel
             /\ aSelectedChannel' = aPlaylist[g].channels[k].id
    /\ aEv' = "Zap"
    /\ aDrillTrail' = "none"
    /\ UNCHANGED << aActiveCategory, aFetches, aPlaylist, aLoading, aSelectedGroup,
                    aActiveSection, aFocusedIndex, aSavedGroupIndex, aDrillFrom, appOthers >>

\* line 400: handleClosePlayer
AClosePlayer ==
    /\ aSelectedChannel # 0
    /\ aSelectedChannel' = 0
    /\ aEv' = "ClosePlayer"
    /\ aDrillTrail' = "none"
    /\ UNCHANGED << aActiveCategory, aFetches, aPlaylist, aLoading, aSelectedGroup,
                    aActiveSection, aFocusedIndex, aSavedGroupIndex, aDrillFrom, appOthers >>

NextApp ==
    \/ APlaylistArrives
    \/ ASelectCategory
    \/ ABack
    \/ ASidebarArrowRight
    \/ AListArrowLeft
    \/ AListEnter
    \/ AListArrowUp
    \/ AListArrowDown
    \/ AListPageUp
    \/ AListPageDown
    \/ AHover
    \/ AClickGroup
    \/ AClickChannel
    \/ AZap
    \/ AClosePlayer

SpecApp == InitApp /\ [][NextApp]_vars

\* C4: drilling into a group (Enter or click on a group row with focus index
\* i) and then pressing Back restores the groups view with focus index exactly
\* i, whatever Up/Down/PageUp/PageDown/hover events happened inside the drilled
\* list in between.
C4_BackRestoresFocus ==
    [][ (aEv' = "Back" /\ aSelectedGroup # NoGroup /\ aDrillTrail \in {"fresh", "moved"})
            => /\ aSelectedGroup' = NoGroup
               /\ aFocusedIndex' = aDrillFrom
               /\ InRange(aFlatItems', aDrillFrom)
               /\ At(aFlatItems', aDrillFrom).type = "group"
               /\ At(aFlatItems', aDrillFrom).groupData = aSelectedGroup ]_vars

C4_Witness ==
    /\ aEv = "Back"
    /\ aDrillTrail = "moved"
    /\ aSelectedGroup = NoGroup
    /\ aDrillFrom > 0
    /\ aFocusedIndex = aDrillFrom

(***************************************************************************)
(* Reference counts used by the flattening claims.                         *)
(***************************************************************************)
RECURSIVE SumOver(_, _, _)
SumOver(f(_), a, k) == IF k > Len(a) THEN 0 ELSE f(a[k]) + SumOver(f, a, k + 1)

ChannelCountOf(group) == Len(group.channels)
NumChannels(groups) == SumOver(ChannelCountOf, groups, 1)

\* letter by letter, whatever the case
EqualsIgnoreCase(a, b) ==
    /\ Len(a) = Len(b)
    /\ \A i \in 1..Len(a) : AlphaIdx(a[i]) % 26 = AlphaIdx(b[i]) % 26

NamedGroups(groups) ==
    { g \in 1..Len(groups) : ~EqualsIgnoreCase(groups[g].title, Tuncategorized) }

NonEmptyNamedGroups(groups) ==
    { g \in NamedGroups(groups) : Len(groups[g].channels) > 0 }

C10_Contiguous ==
    (inView # "none") =>
        /\ Len(outItems) = 0 => outTotal = 0
        /\ Len(outItems) > 0 =>
              /\ At(outItems, 0).top = 0
              /\ outTotal = At(outItems, Len(outItems) - 1).top
                            + At(outItems, Len(outItems) - 1).height
        /\ \A i \in 0..(Len(outItems) - 1) : At(outItems, i).index = i
        /\ \A i \in 0..(Len(outItems) - 2) :
              At(outItems, i + 1).top = At(outItems, i).top + At(outItems, i).height

C10_Witness ==
    /\ inView = "flat"
    /\ Len(outItems) >= 4
    /\ \E i \in 1..(Len(outItems) - 2) :
          At(outItems, i).type = "header" /\ At(outItems, i + 1).type = "channel"

\* what a row shows: its kind, the title of a header, the channel and its
\* number of a channel row
RowLabel(row) ==
    [type |-> row.type, title |-> row.title, data |-> row.data,
     channelNumber |-> row.channelNumber]

HeaderLabel(group) ==
    [type |-> "header", title |-> group.title, data |-> NoChannel, channelNumber |-> 0]

ChannelLabel(channel, number) ==
    [type |-> "channel", title |-> << >>, data |-> channel, channelNumber |-> number]

\* the labels of one group that comes after `before` channels
GroupLabels(group, before) ==
    IF Len(group.channels) = 0 THEN << >>
    ELSE (IF EqualsIgnoreCase(group.title, Tuncategorized)
          THEN << >> ELSE << HeaderLabel(group) >>)
         \o [k \in 1..Len(group.channels) |-> ChannelLabel(group.channels[k], before + k)]

RECURSIVE ExpectedLabels(_, _, _)
ExpectedLabels(groups, g, before) ==
    IF g > Len(groups) THEN << >>
    ELSE GroupLabels(groups[g], before)
         \o ExpectedLabels(groups, g + 1, before + Len(groups[g].channels))

\* C13: in FlatList mode the rows are, for each group with a channel in the
\* order of the playlist, a header row (absent exactly when the title is
\* case-insensitively "uncategorized") followed by the channels of the group
\* in playlist order, numbered 1, 2, ... across the groups.
C13_FlatOrder ==
    (inView = "flat") =>
        [i \in 1..Len(outItems) |-> RowLabel(outItems[i])] = ExpectedLabels(inGroups, 1, 0)

\* [Sports:[A,B], Uncategorized:[C]] gives [Header(Sports), A#1, B#2, C#3]
\* with total height headerHeight + 3 * channelHeight
C13_Witness ==
    /\ inView = "flat"
    /\ Len(inGroups) = 2
    /\ inGroups[1].title = TSports /\ Len(inGroups[1].channels) = 2
    /\ inGroups[2].title = TUncategorized /\ Len(inGroups[2].channels) = 1
    /\ Len(outItems) = 4
    /\ outItems[1].type = "header" /\ outItems[1].title = TSports
    /\ outItems[2].data = inGroups[1].channels[1] /\ outItems[2].channelNumber = 1
    /\ outItems[3].data = inGroups[1].channels[2] /\ outItems[3].channelNumber = 2
    /\ outItems[4].data = inGroups[2].channels[1] /\ outItems[4].channelNumber = 3
    /\ outTotal = HEADER_HEIGHT + 3 * CHANNEL_HEIGHT

(***************************************************************************)
(* SpecPlayer: the playback session of src/components/VideoPlayer.tsx.     *)
(*                                                                         *)
(* One action is one event of the browser's event loop with the render and *)
(* the effects it causes: a key, a pointer event, a media event, an engine *)
(* event, the retry timer, a history traversal.  window.history.back() is  *)
(* asynchronous: the call queues a traversal (pPendingBack) and the        *)
(* popstate listener runs when the traversal is made (PPopState).  The     *)
(* platform's own back gesture is a traversal of the browser, made and     *)
(* delivered in one step (PBackGesture).                                   *)
(*                                                                         *)
(* A stream engine is an Hls instance.  hlsRef.current names at most one;  *)
(* an instance that was never destroyed and that hlsRef no longer names    *)
(* stays alive with its listeners and the closure of the effect run that   *)
(* created it (pLeaked counts them by the channel of that closure).        *)
(***************************************************************************)
RECURSIVE SumLeaked(_, _)
SumLeaked(f, S) ==
    IF S = {} THEN 0
    ELSE LET c == CHOOSE x \in S : TRUE IN f[c] + SumLeaked(f, S \ {c})

LeakedTotal == SumLeaked(pLeaked, Streams)

\* the stream engine instances alive: created and not destroyed
LiveEngines == (IF pHlsRef.st = "live" THEN 1 ELSE 0) + LeakedTotal

\* the engines alive and the native source, by the channel they load
ResourcesOf(c) ==
    (IF pHlsRef.st = "live" /\ pHlsRef.ch = c THEN 1 ELSE 0)
        + pLeaked[c] + (IF pVideoSrc = c THEN 1 ELSE 0)

InitPlayer ==
    /\ pPlatform \in {"native", "hlsjs", "none"}
    /\ pMounted = FALSE
    /\ pChannel = 0
    /\ pHlsRef = NullRef
    /\ pLeaked = [c \in Streams |-> 0]
    /\ pRetryTimer = 0
    /\ pIsLoading = FALSE
    /\ pVideoSrc = 0
    /\ pIsListOpen = FALSE
    /\ pViewMode = "channels"
    /\ pFocusArea = "list"
    /\ pHist \in {<< "app" >>, << "app", "app" >>}
    /\ pPos = Len(pHist)
    /\ pPendingBack = 0
    /\ pEv = "init"
    /\ pBasePos = 0
    /\ pOwed = 0
    /\ IdleFlatten
    /\ IdleFlat
    /\ IdleApp
    /\ IdleRender
    /\ IdleListKeys
    /\ IdleEpgLookup
    /\ IdleEpg
    /\ IdleScroll
    /\ IdleReady
    /\ IdleOverlay
    /\ IdleRetry

\* loadStream of the effect run for channel c, on hlsRef.current = ref:
\* the values of hlsRef, the unreferenced live instances and video.src after
LoadStream(c, ref, leaked, src) ==
    IF pPlatform = "hlsjs"
    THEN [ ref    |-> [st |-> "live", ch |-> c],
           leaked |-> IF ref.st = "live"
                      THEN [leaked EXCEPT ![ref.ch] = @ + 1]
                      ELSE leaked,
           src    |-> src ]
    ELSE [ ref |-> ref, leaked |-> leaked, src |-> c ]

\* hlsRef.current after `if (hlsRef.current) hlsRef.current.destroy()`
DestroyRef(ref) == IF ref.st = "live" THEN [ref EXCEPT !.st = "destroyed"] ELSE ref

\* pushState of the sentinel entry at position pos: the forward entries go
PushSentinel(hist, pos) == Append(SubSeq(hist, 1, pos), "sentinel")

\* App sets selectedChannel: the player mounts, its state is initial, the
\* history effect pushes the sentinel and the video effect loads stream c
POpen(c) ==
    /\ ~pMounted
    /\ pBasePos = 0
    /\ pMounted' = TRUE
    /\ pChannel' = c
    /\ pIsListOpen' = FALSE
    /\ pViewMode' = "channels"
    /\ pFocusArea' = "list"
    /\ pHist' = PushSentinel(pHist, pPos)
    /\ pPos' = pPos + 1
    /\ pBasePos' = pPos
    /\ LET l == LoadStream(c, NullRef, pLeaked, 0) IN
          /\ pHlsRef' = l.ref
          /\ pLeaked' = l.leaked
          /\ pVideoSrc' = l.src
    /\ pRetryTimer' = 0
    /\ pIsLoading' = TRUE
    /\ pOwed' = 0
    /\ pEv' = "Open"
    /\ UNCHANGED << pPlatform, pPendingBack, playerOthers >>

\* onChannelSelect(c): the channel prop changes, the cleanup of the video
\* effect runs (lines 214-226), then the effect for c (lines 165-212)
ChannelEffect(c) ==
    /\ pChannel' = c
    /\ LET l == LoadStream(c, NullRef, pLeaked, 0) IN
          /\ pHlsRef' = l.ref
          /\ pLeaked' = l.leaked
          /\ pVideoSrc' = l.src
    /\ pRetryTimer' = 0
    /\ pIsLoading' = TRUE
    /\ pOwed' = 0

\* PageUp / PageDown with the overlay closed (lines 313-327): the parent is
\* asked for the neighbouring channel
PZap(c) ==
    /\ pMounted
    /\ c # pChannel
    /\ ~pIsListOpen
    /\ ChannelEffect(c)
    /\ pEv' = "Zap"
    /\ UNCHANGED << pPlatform, pMounted, overlayVars, historyVars, pBasePos, playerOthers >>

\* Enter or a click on a channel row that asks the parent for the row's
\* channel whichever channel is playing
PSelectChannelAlwaysSwitches(target) ==
    /\ pMounted
    /\ pIsListOpen /\ pViewMode = "channels"
    /\ ChannelEffect(target)
    /\ pEv' = IF target = pChannel THEN "SelectPlaying" ELSE "SelectOther"
    /\ UNCHANGED << pPlatform, pMounted, overlayVars, historyVars, pBasePos, playerOthers >>

\* Enter on the selected channel row (lines 347-352) or a click on a channel
\* row (lines 448-453): the row of the playing channel closes the overlay,
\* any other row is handed to onChannelSelect
PSelectChannel(target) ==
    /\ pMounted
    /\ pIsListOpen /\ pViewMode = "channels"
    /\ IF target = pChannel
       THEN /\ pIsListOpen' = FALSE
            /\ pEv' = "SelectPlaying"
            /\ UNCHANGED << pChannel, engineVars, pViewMode, pFocusArea >>
       ELSE /\ ChannelEffect(target)
            /\ pEv' = "SelectOther"
            /\ UNCHANGED overlayVars
    /\ UNCHANGED << pPlatform, pMounted, historyVars, pBasePos, playerOthers >>

\* retryConnection of the effect run for channel c: the pending timer is
\* cleared and a new one is set for loadStream of that run
RetryConnection(c) == pRetryTimer' = c

\* Hls.Events.ERROR with data.fatal on the instance hlsRef names
PHlsFatalError ==
    /\ pHlsRef.st = "live"
    /\ pHlsRef' = DestroyRef(pHlsRef)
    /\ RetryConnection(pHlsRef.ch)
    /\ pOwed' = IF pMounted /\ pHlsRef.ch = pChannel THEN pChannel ELSE pOwed
    /\ pEv' = "HlsFatalError"
    /\ UNCHANGED << pPlatform, pMounted, pChannel, pLeaked, pIsLoading, pVideoSrc,
                    overlayVars, historyVars, pBasePos, playerOthers >>

\* Hls.Events.ERROR with data.fatal on a live instance hlsRef does not name
PLeakedFatalError(c) ==
    /\ pLeaked[c] > 0
    /\ pLeaked' = [pLeaked EXCEPT ![c] = @ - 1]
    /\ RetryConnection(c)
    /\ pOwed' = IF pMounted /\ c = pChannel THEN pChannel ELSE pOwed
    /\ pEv' = "LeakedFatalError"
    /\ UNCHANGED << pPlatform, pMounted, pChannel, pHlsRef, pIsLoading, pVideoSrc,
                    overlayVars, historyVars, pBasePos, playerOthers >>

\* the retry events are taken while the instances they can strand stay
\* within MaxLeaked
MayRetry == pPlatform # "hlsjs" \/ pHlsRef.st # "live" \/ LeakedTotal < MaxLeaked

\* the video element's 'stalled' event: retryConnection
PVideoStalled ==
    /\ pMounted
    /\ MayRetry
    /\ RetryConnection(pChannel)
    /\ pEv' = "VideoStalled"
    /\ UNCHANGED << pPlatform, pMounted, pChannel, pHlsRef, pLeaked, pIsLoading,
                    pVideoSrc, pOwed, overlayVars, historyVars, pBasePos, playerOthers >>

\* the video element's 'error' event: handleNativeError
PVideoError ==
    /\ pMounted
    /\ MayRetry
    /\ RetryConnection(pChannel)
    /\ pEv' = "VideoError"
    /\ UNCHANGED << pPlatform, pMounted, pChannel, pHlsRef, pLeaked, pIsLoading,
                    pVideoSrc, pOwed, overlayVars, historyVars, pBasePos, playerOthers >>

\* the retry timer fires: loadStream of the effect run that set it
PRetryTimerFires ==
    /\ pRetryTimer # 0
    /\ LET l == LoadStream(pRetryTimer, pHlsRef, pLeaked, pVideoSrc) IN
          /\ pHlsRef' = l.ref
          /\ pLeaked' = l.leaked
          /\ pVideoSrc' = l.src
    /\ pRetryTimer' = 0
    /\ pIsLoading' = IF pMounted THEN TRUE ELSE pIsLoading
    /\ pOwed' = IF pRetryTimer = pOwed THEN 0 ELSE pOwed
    /\ pEv' = "RetryTimerFires"
    /\ UNCHANGED << pPlatform, pMounted, pChannel, overlayVars, historyVars,
                    pBasePos, playerOthers >>

\* Hls.Events.MANIFEST_PARSED on a live instance
PManifestParsed ==
    /\ LiveEngines > 0
    /\ pIsLoading' = FALSE
    /\ pEv' = "ManifestParsed"
    /\ UNCHANGED << pPlatform, pMounted, pChannel, pHlsRef, pLeaked, pRetryTimer,
                    pVideoSrc, pOwed, overlayVars, historyVars, pBasePos, playerOthers >>

\* 'loadedmetadata', 'canplay', 'playing' or 'timeupdate' of the video element
PStreamReady ==
    /\ pMounted
    /\ pVideoSrc # 0 \/ LiveEngines > 0
    /\ pIsLoading' = FALSE
    /\ pEv' = "StreamReady"
    /\ UNCHANGED << pPlatform, pMounted, pChannel, pHlsRef, pLeaked, pRetryTimer,
                    pVideoSrc, pOwed, overlayVars, historyVars, pBasePos, playerOthers >>

\* the isBack branch without its overlay cases: an open overlay is left as it is
PKeyBackLeavesOverlay ==
    /\ pMounted
    /\ pPendingBack < MaxPending
    /\ pPendingBack' = pPendingBack + 1
    /\ pEv' = "KeyBack"
    /\ UNCHANGED << pPlatform, pMounted, pChannel, engineVars, overlayVars, pHist,
                    pPos, pBasePos, playerOthers >>

\* the key handler's isBack branch
PKeyBack ==
    /\ pMounted
    /\ IF pIsListOpen
       THEN IF pViewMode = "groups"
            THEN /\ pViewMode' = "channels"
                 /\ pFocusArea' = "list"
                 /\ UNCHANGED << pIsListOpen, pPendingBack >>
            ELSE /\ pIsListOpen' = FALSE
                 /\ UNCHANGED << pViewMode, pFocusArea, pPendingBack >>
       ELSE /\ pPendingBack < MaxPending
            /\ pPendingBack' = pPendingBack + 1
            /\ UNCHANGED overlayVars
    /\ pEv' = "KeyBack"
    /\ UNCHANGED << pPlatform, pMounted, pChannel, engineVars, pHist, pPos,
                    pBasePos, playerOthers >>

\* ArrowUp, ArrowDown or Enter with the overlay closed, or a click on the video
POpenList ==
    /\ pMounted
    /\ ~pIsListOpen
    /\ pIsListOpen' = TRUE
    /\ pEv' = "OpenList"
    /\ UNCHANGED << pPlatform, pMounted, pChannel, engineVars, pViewMode, pFocusArea,
                    historyVars, pBasePos, playerOthers >>

PKeyLeft ==
    /\ pMounted
    /\ pIsListOpen /\ pViewMode = "channels" /\ pFocusArea = "list"
    /\ pFocusArea' = "sidebar"
    /\ pEv' = "ArrowLeft"
    /\ UNCHANGED << pPlatform, pMounted, pChannel, engineVars, pIsListOpen, pViewMode,
                    historyVars, pBasePos, playerOthers >>

PKeyRight ==
    /\ pMounted
    /\ pIsListOpen /\ pViewMode = "channels" /\ pFocusArea = "sidebar"
    /\ pFocusArea' = "list"
    /\ pEv' = "ArrowRight"
    /\ UNCHANGED << pPlatform, pMounted, pChannel, engineVars, pIsListOpen, pViewMode,
                    historyVars, pBasePos, playerOthers >>

\* Enter with the focus on the sidebar, or a click on the group button
PShowGroups ==
    /\ pMounted
    /\ pIsListOpen /\ pViewMode = "channels"
    /\ pViewMode' = "groups"
    /\ pFocusArea' = "list"
    /\ pEv' = "ShowGroups"
    /\ UNCHANGED << pPlatform, pMounted, pChannel, engineVars, pIsListOpen,
                    historyVars, pBasePos, playerOthers >>

\* Enter or a click on a group row
PEnterGroup ==
    /\ pMounted
    /\ pIsListOpen /\ pViewMode = "groups"
    /\ pViewMode' = "channels"
    /\ pEv' = "EnterGroup"
    /\ UNCHANGED << pPlatform, pMounted, pChannel, engineVars, pIsListOpen, pFocusArea,
                    historyVars, pBasePos, playerOthers >>

\* a click on the backdrop of the overlay (line 532)
PCloseList ==
    /\ pMounted
    /\ pIsListOpen
    /\ pIsListOpen' = FALSE
    /\ pEv' = "CloseList"
    /\ UNCHANGED << pPlatform, pMounted, pChannel, engineVars, pViewMode, pFocusArea,
                    historyVars, pBasePos, playerOthers >>

\* the pointer enters the group button (to "sidebar") or a row (to "list")
PHover(area) ==
    /\ pMounted
    /\ pIsListOpen
    /\ area = "sidebar" => pViewMode = "channels"
    /\ pFocusArea # area
    /\ pFocusArea' = area
    /\ pEv' = "Hover"
    /\ UNCHANGED << pPlatform, pMounted, pChannel, engineVars, pIsListOpen, pViewMode,
                    historyVars, pBasePos, playerOthers >>

\* handlePopState, and what the unmount it may ask for runs, after the
\* traversal that leaves the current entry at pos with pend calls queued
HandlePopState(pos, pend) ==
    IF ~pMounted
    THEN /\ pPos' = pos
         /\ pPendingBack' = pend
         /\ UNCHANGED << pMounted, pChannel, engineVars, overlayVars, pHist >>
    ELSE IF pIsListOpen
    THEN /\ pIsListOpen' = FALSE
         /\ pHist' = PushSentinel(pHist, pos)
         /\ pPos' = pos + 1
         /\ pPendingBack' = pend
         /\ UNCHANGED << pMounted, pChannel, engineVars, pViewMode, pFocusArea >>
    ELSE /\ pMounted' = FALSE
         /\ pChannel' = 0
         /\ pHlsRef' = DestroyRef(pHlsRef)
         /\ pRetryTimer' = 0
         /\ pVideoSrc' = 0
         /\ pIsLoading' = FALSE
         /\ pOwed' = 0
         /\ pViewMode' = "channels"
         /\ pFocusArea' = "list"
         /\ pPos' = pos
         /\ pPendingBack' = IF pHist[pos] = "sentinel" THEN pend + 1 ELSE pend
         /\ UNCHANGED << pLeaked, pIsListOpen, pHist >>

\* a traversal that window.history.back() asked for is made
PPopState ==
    /\ pPendingBack > 0
    /\ IF pPos > 1
       THEN HandlePopState(pPos - 1, pPendingBack - 1)
       ELSE /\ pPendingBack' = pPendingBack - 1
            /\ UNCHANGED << pMounted, pChannel, engineVars, overlayVars, pHist, pPos >>
    /\ pEv' = "PopState"
    /\ UNCHANGED << pPlatform, pBasePos, playerOthers >>

\* the back gesture of the platform during the session: the browser goes
\* back one entry, behind the traversals already asked for
PBackGesture ==
    /\ pMounted
    /\ pPendingBack = 0
    /\ pPos > 1
    /\ HandlePopState(pPos - 1, pPendingBack)
    /\ pEv' = "BackGesture"
    /\ UNCHANGED << pPlatform, pBasePos, playerOthers >>

NextPlayer ==
    \/ \E c \in Streams : POpen(c)
    \/ \E c \in Streams : PZap(c)
    \/ \E target \in Streams : PSelectChannel(target)
    \/ PHlsFatalError
    \/ \E c \in Streams : PLeakedFatalError(c)
    \/ PVideoStalled
    \/ PVideoError
    \/ PRetryTimerFires
    \/ PManifestParsed
    \/ PStreamReady
    \/ PKeyBack
    \/ POpenList
    \/ PKeyLeft
    \/ PKeyRight
    \/ PShowGroups
    \/ PEnterGroup
    \/ PCloseList
    \/ \E area \in {"list", "sidebar"} : PHover(area)
    \/ PPopState
    \/ PBackGesture

SpecPlayer == InitPlayer /\ [][NextPlayer]_vars

\* the retry timer fires once it is due
FairSpecPlayer == SpecPlayer /\ WF_vars(PRetryTimerFires)

\* C1: at most one stream-engine instance is alive at any time: every retry
\* trigger (a fatal engine error, a 'stalled' or an 'error' event of the
\* video element) has torn the current instance down before the retried
\* load creates the next one.
C1_OneEngine == LiveEngines <= 1

\* C2: when channel B is activated while channel A is still loading, the
\* switch leaves exactly one playback resource, the one of B, and no retry
\* timer of A: no engine and no source of A survives it.
C2_SwitchLeavesOne ==
    [][ (pEv' \in {"Zap", "SelectOther"} /\ pMounted /\ pIsLoading)
            => /\ \A c \in Streams :
                     ResourcesOf(c)' = IF c = pChannel' THEN 1 ELSE 0
               /\ pRetryTimer' = 0 ]_vars

\* C5 as stated: with the overlay open, one back-press (the Back / Escape /
\* remote back key or the back gesture of the platform) closes the overlay
\* and keeps the session, in whichever view and focus area.
C5_Orig ==
    [][ (pMounted /\ pIsListOpen /\ pEv' \in {"KeyBack", "BackGesture"})
            => (~pIsListOpen' /\ pMounted') ]_vars

\* C5: with the overlay open, one back-press closes the overlay and keeps
\* the session when it is the back gesture of the platform (either view,
\* either focus area) or the back key in the channels view (either focus
\* area); the back key in the groups view returns the overlay to the
\* channels view with the focus on the list and leaves it open.
C5_BackClosesOverlay ==
    [][ (pMounted /\ pIsListOpen)
            => /\ pEv' = "BackGesture" => (~pIsListOpen' /\ pMounted')
               /\ (pEv' = "KeyBack" /\ pViewMode = "channels")
                      => (~pIsListOpen' /\ pMounted')
               /\ (pEv' = "KeyBack" /\ pViewMode = "groups")
                      => /\ pIsListOpen' /\ pMounted'
                         /\ pViewMode' = "channels"
                         /\ pFocusArea' = "list" ]_vars

\* the back key has closed the overlay from the channels view, the focus
\* on the sidebar
C5_Witness ==
    /\ pEv = "KeyBack"
    /\ pMounted /\ ~pIsListOpen /\ pPendingBack = 0
    /\ pViewMode = "channels" /\ pFocusArea = "sidebar"

\* C6: a back-press ends the session only when no overlay is open at the
\* press: with the overlay open it never does, with no overlay open it
\* always does.  A traversal of PPopState is the one a back key pressed
\* with no overlay open has asked for.
C6_BackTerminates ==
    [][ /\ (pMounted /\ ~pMounted')
            => (pEv' \in {"PopState", "BackGesture"} /\ ~pIsListOpen)
        /\ (pMounted /\ pIsListOpen /\ pEv' \in {"KeyBack", "BackGesture"})
            => pMounted'
        /\ (pMounted /\ ~pIsListOpen /\ pEv' = "BackGesture") => ~pMounted'
        /\ (pMounted /\ pEv' = "PopState") => ~pMounted' ]_vars

\* C7: once the session has ended and every traversal asked for is made,
\* the history is at the entry it was at before the session started.
C7_HistoryRestored ==
    (pBasePos # 0 /\ ~pMounted /\ pPendingBack = 0) => pPos = pBasePos

\* C8: while the session stays active, a fatal engine error of the active
\* channel is followed by a new load attempt for that channel, unless the
\* user tears the session down or switches the channel first.
C8_RetryFollows == (pOwed # 0) ~> (pOwed = 0)

(***************************************************************************)
(* SpecRender: renderVirtualItems of src/App.tsx (lines 249-276) and of    *)
(* src/unnamed/part_000 (lines 220-241) under the events that change its   *)
(* inputs: the rows are rebuilt, the list is scrolled, the window is       *)
(* resized.  Every event is followed by a render.                          *)
(***************************************************************************)
\* App.tsx line 254 and the literal of part_000 lines 227 and 237
buffer      == 300
Overscan000 == 100

Overscan(revision) == IF revision = "App" THEN buffer ELSE Overscan000

Max(a, b) == IF a >= b THEN a ELSE b

\* the largest offset the container can have over content of height total
MaxScrollTop(total, viewH) == Max(0, total - viewH)

\* totalHeight of a row sequence: the rows are stacked from 0
RowsHeight(items) ==
    IF Len(items) = 0 THEN 0
    ELSE At(items, Len(items) - 1).top + At(items, Len(items) - 1).height

\* App.tsx line 255; part_000 line 227 compares with scrollTop - 100 as it is
TopBound(revision, scrollTop) ==
    IF revision = "App" THEN Max(0, scrollTop - buffer) ELSE scrollTop - Overscan000

\* App.tsx line 256, part_000 line 237
BottomBound(revision, scrollTop, containerHeight) ==
    scrollTop + containerHeight + Overscan(revision)

\* lines 259-267 with <= in the comparison of line 262
RECURSIVE BinarySearchLowInclusive(_, _, _, _)
BinarySearchLowInclusive(items, low, high, topBound) ==
    IF low > high THEN low
    ELSE LET mid == (low + high) \div 2 IN
         IF At(items, mid).top + At(items, mid).height <= topBound
         THEN BinarySearchLowInclusive(items, mid + 1, high, topBound)
         ELSE BinarySearchLowInclusive(items, low, mid - 1, topBound)

\* App.tsx lines 259-267, part_000 lines 224-232: the value of low after the loop
RECURSIVE BinarySearchLow(_, _, _, _)
BinarySearchLow(items, low, high, topBound) ==
    IF low > high THEN low
    ELSE LET mid == (low + high) \div 2 IN
         IF At(items, mid).top + At(items, mid).height < topBound
         THEN BinarySearchLow(items, mid + 1, high, topBound)
         ELSE BinarySearchLow(items, low, mid - 1, topBound)

\* App.tsx lines 270-274 with the break left out
ScanEndToLast(items, i, endIndex, bottomBound) ==
    IF i >= Len(items) THEN endIndex ELSE Len(items) - 1

\* App.tsx lines 270-274, part_000 lines 235-239: endIndex after the loop from i
RECURSIVE ScanEnd(_, _, _, _)
ScanEnd(items, i, endIndex, bottomBound) ==
    IF i >= Len(items) THEN endIndex
    ELSE IF At(items, i).top > bottomBound THEN endIndex
    ELSE ScanEnd(items, i + 1, i, bottomBound)

\* Array.prototype.slice(from, to) with 0 <= from
Slice(items, from, to) ==
    LET hi == IF to > Len(items) THEN Len(items) ELSE to
    IN  IF from >= hi THEN << >> ELSE SubSeq(items, from + 1, hi)

StartIndex(revision, items, scrollTop) ==
    Max(0, BinarySearchLow(items, 0, Len(items) - 1, TopBound(revision, scrollTop)))

EndIndex(revision, items, scrollTop, containerHeight) ==
    LET startIndex == StartIndex(revision, items, scrollTop)
    IN  ScanEnd(items, startIndex, startIndex,
                BottomBound(revision, scrollTop, containerHeight))

\* App.tsx lines 249-276, part_000 lines 220-241: the rows that are mapped to
\* elements, << >> when the function returns null
RenderVirtualItems(revision, loading, items, scrollTop, containerHeight) ==
    IF loading \/ Len(items) = 0 THEN << >>
    ELSE Slice(items, StartIndex(revision, items, scrollTop),
               EndIndex(revision, items, scrollTop, containerHeight) + 1)

\* the playlists whose rows are rendered: the fetched ones and one group of
\* up to MaxRows channels
RenderPlaylists == FetchedPlaylists \cup { << MkGroup(TNews, n) >> : n \in 1..MaxRows }

\* flatItems of a revision once the playlist is there (no drill target)
RowsOf(revision, pl) ==
    IF revision = "App" THEN AppFlatItems(pl, NoGroup).items ELSE FlatListItems(pl).items

ScrollOffsets   == { k * ScrollStep : k \in 0..MaxScrollSteps }
ViewportHeights == { k * 3 * ScrollStep : k \in 0..MaxViewSteps }

\* the state of a revision after its first render: loading, nothing measured
InitRender ==
    /\ vRevision \in {"App", "part_000"}
    /\ vItems = << >>
    /\ vLoading = TRUE
    /\ vScrollTop = 0
    /\ vContainerHeight = 0
    /\ vRendered = << >>
    /\ vEv = "init"
    /\ IdleFlatten
    /\ IdleFlat
    /\ IdleApp
    /\ IdlePlayer
    /\ IdleListKeys
    /\ IdleEpgLookup
    /\ IdleEpg
    /\ IdleScroll
    /\ IdleReady
    /\ IdleOverlay
    /\ IdleRetry

\* fetchPlaylist resolves: loading ends and flatItems is rebuilt
VRebuild ==
    /\ vLoading
    /\ \E pl \in RenderPlaylists :
          /\ vItems' = RowsOf(vRevision, pl)
          /\ vRendered' = RenderVirtualItems(vRevision, FALSE, RowsOf(vRevision, pl),
                                             vScrollTop, vContainerHeight)
    /\ vLoading' = FALSE
    /\ vEv' = "Rebuild"
    /\ UNCHANGED << vRevision, vScrollTop, vContainerHeight, renderOthers >>

\* App.tsx: a group row is entered, flatItems becomes the channels of the group
VDrill ==
    /\ ~vLoading
    /\ \E i \in 0..(Len(vItems) - 1) :
          /\ At(vItems, i).type = "group"
          /\ vItems' = AppFlatItems(<< >>, At(vItems, i).groupData).items
          /\ vRendered' = RenderVirtualItems(vRevision, FALSE,
                              AppFlatItems(<< >>, At(vItems, i).groupData).items,
                              vScrollTop, vContainerHeight)
    /\ vEv' = "Drill"
    /\ UNCHANGED << vRevision, vLoading, vScrollTop, vContainerHeight, renderOthers >>

\* the category changes: loading is set and the playlist is emptied
VLoad ==
    /\ ~vLoading
    /\ vLoading' = TRUE
    /\ vItems' = << >>
    /\ vRendered' = RenderVirtualItems(vRevision, TRUE, << >>, vScrollTop, vContainerHeight)
    /\ vEv' = "Load"
    /\ UNCHANGED << vRevision, vScrollTop, vContainerHeight, renderOthers >>

\* handleScroll: the container reports an offset of its scrollable range
VScroll ==
    /\ ~vLoading
    /\ \E top \in ScrollOffsets :
          /\ top # vScrollTop
          /\ top <= MaxScrollTop(RowsHeight(vItems), vContainerHeight)
          /\ vScrollTop' = top
          /\ vRendered' = RenderVirtualItems(vRevision, vLoading, vItems, top,
                                             vContainerHeight)
    /\ vEv' = "Scroll"
    /\ UNCHANGED << vRevision, vItems, vLoading, vContainerHeight, renderOthers >>

\* the mount effect and handleResize: containerHeight is measured
VResize ==
    /\ \E h \in ViewportHeights :
          /\ h # vContainerHeight
          /\ vContainerHeight' = h
          /\ vRendered' = RenderVirtualItems(vRevision, vLoading, vItems, vScrollTop, h)
    /\ vEv' = "Resize"
    /\ UNCHANGED << vRevision, vItems, vLoading, vScrollTop, renderOthers >>

NextRender == VRebuild \/ VDrill \/ VLoad \/ VScroll \/ VResize

SpecRender == InitRender /\ [][NextRender]_vars

\* C11: for every row sequence, scroll offset >= 0 and viewport height >= 0
\* the rendered rows are a contiguous index range, and none of them ends
\* above scrollOffset - overscan or starts below scrollOffset +
\* viewportHeight + overscan.
C11_VisibleRange ==
    /\ \A k \in 1..(Len(vRendered) - 1) : vRendered[k + 1].index = vRendered[k].index + 1
    /\ \A k \in 1..Len(vRendered) :
          /\ vRendered[k] = At(vItems, vRendered[k].index)
          /\ ~(vRendered[k].top + vRendered[k].height < vScrollTop - Overscan(vRevision))
          /\ ~(vRendered[k].top > vScrollTop + vContainerHeight + Overscan(vRevision))

\* rows are cut off above and below the rendered range
C11_Witness ==
    /\ Len(vRendered) > 0
    /\ vRendered[1].index > 0
    /\ vRendered[Len(vRendered)].index < Len(vItems) - 1

(***************************************************************************)
(* SpecListKeys: the list branch of handleKeyDown (App.tsx lines 231-240,  *)
(* part_000 lines 197-211) applied to the row lists of a revision and to   *)
(* the focus indices those lists have; an empty list is entered with the   *)
(* focus index 0 that ArrowRight sets from the sidebar.                    *)
(***************************************************************************)
\* flatItems of the playlists the keys are applied to: g = 0 is the view
\* without a drill target, g > 0 the channels of the g-th group (App.tsx)
KeyRows(revision, pl, g) ==
    IF revision = "App"
    THEN AppFlatItems(pl, IF g = 0 THEN NoGroup ELSE pl[g]).items
    ELSE FlatListItems(pl).items

InitListKeys ==
    /\ kRevision \in {"App", "part_000"}
    /\ \E pl \in RenderPlaylists :
          \E g \in 0..(IF kRevision = "App" THEN Len(pl) ELSE 0) :
             kItems = KeyRows(kRevision, pl, g)
    /\ kFocusedIndex \in 0..Max(0, Len(kItems) - 1)
    /\ kPrevIndex = kFocusedIndex
    /\ kThrown = FALSE
    /\ kEv = "init"
    /\ IdleFlatten
    /\ IdleFlat
    /\ IdleApp
    /\ IdlePlayer
    /\ IdleRender
    /\ IdleEpgLookup
    /\ IdleEpg
    /\ IdleScroll
    /\ IdleReady
    /\ IdleOverlay
    /\ IdleRetry

\* App.tsx lines 232-235, part_000 lines 198-201
KeyDelta(revision, key) ==
    IF revision = "App" THEN AppKeyDelta(key) ELSE FlatKeyDelta(key)

\* App.tsx lines 231-240, part_000 lines 197-211
KMove(key) ==
    /\ IF kRevision = "App"
       THEN /\ kFocusedIndex' = AppNextIndex(kItems, kFocusedIndex, key)
            /\ UNCHANGED kThrown
       ELSE IF FlatMoveThrows(kItems, kFocusedIndex, key)
       THEN kThrown' = TRUE /\ UNCHANGED kFocusedIndex
       ELSE /\ kFocusedIndex' = FlatNextIndex(kItems, kFocusedIndex, key)
            /\ UNCHANGED kThrown
    /\ kPrevIndex' = kFocusedIndex
    /\ kEv' = key
    /\ UNCHANGED << kRevision, kItems, listKeyOthers >>

KArrowUp   == KMove("ArrowUp")
KArrowDown == KMove("ArrowDown")
KPageUp    == KMove("PageUp")
KPageDown  == KMove("PageDown")

NextListKeys == KArrowUp \/ KArrowDown \/ KPageUp \/ KPageDown

SpecListKeys == InitListKeys /\ [][NextListKeys]_vars

\* C12: with the focus on a row of the list, Down at the last index and Up
\* at index 0 leave the focus index unchanged, PageUp / PageDown that would
\* pass an end of the list put the focus on that end, and none of these
\* keys raises an error.
C12_ClampAtEnds ==
    [][ InRange(kItems, kFocusedIndex) =>
          /\ kThrown' = kThrown
          /\ (kEv' = "ArrowDown" /\ kFocusedIndex = Len(kItems) - 1)
                => kFocusedIndex' = kFocusedIndex
          /\ (kEv' = "ArrowUp" /\ kFocusedIndex = 0) => kFocusedIndex' = 0
          /\ (kEv' \in {"PageUp", "PageDown"}
                 /\ kFocusedIndex + KeyDelta(kRevision, kEv') >= Len(kItems))
                => kFocusedIndex' = Len(kItems) - 1
          /\ (kEv' \in {"PageUp", "PageDown"}
                 /\ kFocusedIndex + KeyDelta(kRevision, kEv') < 0)
                => kFocusedIndex' = 0 ]_vars

\* Down was pressed on the last of several rows and the focus stayed there
C12_Witness ==
    /\ kEv = "ArrowDown"
    /\ Len(kItems) > 1
    /\ kPrevIndex = Len(kItems) - 1
    /\ kFocusedIndex = kPrevIndex
    /\ ~kThrown

(***************************************************************************)
(* SpecEpgLookup: getCurrentProgram (src/unnamed/part_004 lines 119-123)   *)
(* applied to a program list as fetchEPG leaves it, sorted by start        *)
(* (lines 106-109).  An instant is a number of half hours.                 *)
(***************************************************************************)
Times == 0..MaxTime

NoProgram == [title |-> 0, start |-> 0, end |-> 0]

\* an EPGProgram; fetchEPG keeps every programme whose start and stop parse,
\* whatever their order
Programs == { [title |-> 1, start |-> s, end |-> e] : s \in Times, e \in Times }

Retitle(p, t) == [p EXCEPT !.title = t]

\* lists of at most two programmes, sorted by start as line 108 sorts them
ProgramLists ==
    { << >> }
      \cup { << p >> : p \in Programs }
      \cup { << pq[1], Retitle(pq[2], pq[1].title + 1) >> :
                pq \in { x \in Programs \X Programs : x[1].start <= x[2].start } }

\* line 122 with both ends closed
IsCurrentClosed(p, now) == now >= p.start /\ now <= p.end

\* line 122: now >= p.start && now < p.end
IsCurrent(p, now) == now >= p.start /\ now < p.end

\* lines 119-123: Array.prototype.find returns the first match, || null
RECURSIVE FindCurrent(_, _, _)
FindCurrent(programs, i, now) ==
    IF i > Len(programs) THEN NoProgram
    ELSE IF IsCurrent(programs[i], now) THEN programs[i]
    ELSE FindCurrent(programs, i + 1, now)

GetCurrentProgram(programs, now) == FindCurrent(programs, 1, now)

InitEpgLookup ==
    /\ gPrograms \in ProgramLists
    /\ gNow \in Times
    /\ gCurrent = NoProgram
    /\ gEv = "init"
    /\ IdleFlatten
    /\ IdleFlat
    /\ IdleApp
    /\ IdlePlayer
    /\ IdleRender
    /\ IdleListKeys
    /\ IdleEpg
    /\ IdleScroll
    /\ IdleReady
    /\ IdleOverlay
    /\ IdleRetry

GGetCurrentProgram ==
    /\ gEv = "init"
    /\ gCurrent' = GetCurrentProgram(gPrograms, gNow)
    /\ gEv' = "getCurrentProgram"
    /\ UNCHANGED << gPrograms, gNow, lookupOthers >>

NextEpgLookup == GGetCurrentProgram

SpecEpgLookup == InitEpgLookup /\ [][NextEpgLookup]_vars

\* C14: over a list sorted by start, getCurrentProgram returns a programme p
\* of the list with p.start <= now < p.end, the first such one, and returns
\* none exactly when no programme of the list contains now.
C14_CurrentProgram ==
    (gEv = "getCurrentProgram") =>
        LET hits == { i \in 1..Len(gPrograms) :
                        gPrograms[i].start <= gNow /\ gNow < gPrograms[i].end }
        IN  /\ (hits = {}) <=> (gCurrent = NoProgram)
            /\ (hits # {}) =>
                  /\ gCurrent.start <= gNow
                  /\ gNow < gCurrent.end
                  /\ \E i \in hits : gCurrent = gPrograms[i] /\ \A j \in hits : i <= j

\* two adjacent programmes [1,3) and [3,5), asked at the shared instant 3:
\* the second one is returned
C14_Witness ==
    /\ gEv = "getCurrentProgram"
    /\ Len(gPrograms) = 2
    /\ gPrograms[1].start = 1 /\ gPrograms[1].end = 3
    /\ gPrograms[2].start = 3 /\ gPrograms[2].end = 5
    /\ gNow = 3
    /\ gCurrent = gPrograms[2]

(***************************************************************************)
(* Selecting a channel row of the open overlay (SpecPlayer).               *)
(***************************************************************************)

\* C15: selecting (Enter or click) the row of the channel that is already
\* playing while the overlay is open closes the overlay, keeps the active
\* channel and neither tears down nor restarts its stream load.
C15_SelectPlayingCloses ==
    [][ (pIsListOpen /\ pEv' = "SelectPlaying")
            => /\ ~pIsListOpen'
               /\ pChannel' = pChannel
               /\ engineVars' = engineVars ]_vars

\* the playing channel was selected while its load was still in progress
C15_Witness ==
    /\ pEv = "SelectPlaying"
    /\ pMounted
    /\ ~pIsListOpen
    /\ pIsLoading
    /\ ResourcesOf(pChannel) = 1

\* C16: selecting another channel from the open overlay replaces the session
\* with that channel, the stream of the old channel torn down and a load of
\* the new one started, and leaves the overlay open.
C16_SelectOtherSwitches ==
    [][ (pIsListOpen /\ pEv' = "SelectOther")
            => /\ pIsListOpen'
               /\ pChannel' # pChannel
               /\ pIsLoading'
               /\ \A c \in Streams :
                     /\ (c = pChannel') => ResourcesOf(c)' = 1
                     /\ (c = pChannel) => ResourcesOf(c)' = 0 ]_vars

(***************************************************************************)
(* SpecEpg: the effect of src/App.tsx lines 48-73.  Every change of        *)
(* activeCategory runs loadData; a run awaits fetchPlaylist and then       *)
(* starts fetchEPG, whose promise calls setEpgData when it settles.        *)
(* MANUAL_EPG_URL (src/constants.ts line 15) is a non-empty string, so     *)
(* epgSource is never empty and every run starts an EPG request.           *)
(***************************************************************************)
InitEpg ==
    /\ eActiveCategory = Categories[1]
    /\ eLoads = 1
    /\ ePlaylistPending = {1}
    /\ eEpgPending = {}
    /\ eLoading = TRUE
    /\ eEpgData = 0
    /\ ePlaylistOf = 0
    /\ eEv = "init"
    /\ IdleFlatten
    /\ IdleFlat
    /\ IdleApp
    /\ IdlePlayer
    /\ IdleRender
    /\ IdleListKeys
    /\ IdleEpgLookup
    /\ IdleScroll
    /\ IdleReady
    /\ IdleOverlay
    /\ IdleRetry

\* the sidebar selects the other category (lines 199, 406): the effect runs
\* loadData up to its await (lines 50-56)
ESelectCategory ==
    /\ eLoads < MaxLoads
    /\ eActiveCategory' = OtherCategory(eActiveCategory)
    /\ eLoads' = eLoads + 1
    /\ ePlaylistPending' = ePlaylistPending \cup {eLoads + 1}
    /\ eLoading' = TRUE
    /\ eEpgData' = 0
    /\ ePlaylistOf' = 0
    /\ eEv' = "SelectCategory"
    /\ UNCHANGED << eEpgPending, epgOthers >>

\* fetchPlaylist of run r resolves: lines 57-70 of that run
EPlaylistArrives(r) ==
    /\ r \in ePlaylistPending
    /\ ePlaylistPending' = ePlaylistPending \ {r}
    /\ eLoading' = FALSE
    /\ ePlaylistOf' = r
    /\ eEpgPending' = eEpgPending \cup {r}
    /\ eEv' = "PlaylistArrives"
    /\ UNCHANGED << eActiveCategory, eLoads, eEpgData, epgOthers >>

\* fetchEPG of run r settles, with {} when it failed (part_004 lines
\* 113-116): line 69 hands the result to setEpgData
EEpgArrives(r, ok) ==
    /\ r \in eEpgPending
    /\ eEpgPending' = eEpgPending \ {r}
    /\ eEpgData' = IF ok THEN r ELSE 0
    /\ eEv' = "EpgArrives"
    /\ UNCHANGED << eActiveCategory, eLoads, ePlaylistPending, eLoading, ePlaylistOf,
                    epgOthers >>

NextEpg ==
    \/ ESelectCategory
    \/ \E r \in 1..MaxLoads : EPlaylistArrives(r)
    \/ \E r \in 1..MaxLoads, ok \in BOOLEAN : EEpgArrives(r, ok)

SpecEpg == InitEpg /\ [][NextEpg]_vars

\* C17: the result of an EPG request is applied only while its request is
\* the latest one; epgData never holds the result of a request made before
\* a later category switch.
C17_LatestEpgOnly == eEpgData \in {0, eLoads}

(***************************************************************************)
(* The list with no rows (SpecApp, SpecFlat).                              *)
(***************************************************************************)
ListKeys == {"Enter", "ArrowUp", "ArrowDown", "PageUp", "PageDown"}

\* C18: while the row sequence is empty, Enter, Up, Down, PageUp and
\* PageDown in the list change neither the focus index, the active region,
\* the drill target nor the selected channel.
C18_EmptyListKeysNoOp ==
    [][ (aActiveSection = "list" /\ Len(aFlatItems) = 0 /\ aEv' \in ListKeys)
            => /\ aFocusedIndex' = aFocusedIndex
               /\ aActiveSection' = aActiveSection
               /\ aSelectedGroup' = aSelectedGroup
               /\ aSelectedChannel' = aSelectedChannel ]_vars

\* C19: in every reachable state the focus index is -1 (none) or a valid
\* index into the current row sequence; a rebuild of the rows and Right from
\* the sidebar never keep an index that is out of range.
C19_FocusIndexValid ==
    aFocusedIndex = -1 \/ InRange(aFlatItems, aFocusedIndex)

(***************************************************************************)
(* A platform with neither native HLS nor the external engine (SpecPlayer).*)
(***************************************************************************)

\* C20: when neither native HLS playback nor the external stream engine is
\* available, the session is unsupported and no retry is ever scheduled:
\* no retry timer is pending on such a platform.
C20_UnsupportedNoRetry ==
    (pPlatform = "none") => (pRetryTimer = 0)

(***************************************************************************)
(* Retries after a session was torn down (SpecPlayer).                     *)
(***************************************************************************)

\* C21: once the session of a channel has been torn down (by a channel
\* switch or by closing the player) no load of that channel is started
\* again: a pending retry timer always belongs to the channel of the
\* session that is mounted.
C21_NoRetryAfterTeardown ==
    (pRetryTimer # 0) => (pMounted /\ pRetryTimer = pChannel)

(***************************************************************************)
(* Category reloads (SpecApp).                                             *)
(***************************************************************************)

\* the playlist that arrives in this step is the one of the latest reload:
\* the only fetch outstanding for the active category resolves
ALatestReloadArrives ==
    /\ aEv' = "PlaylistArrives"
    /\ aFetches[aActiveCategory] = 1
    /\ aFetches'[aActiveCategory] = 0

\* C22: when the playlist of the reload started by selecting another
\* category has arrived, the focus index is none (-1), the active region
\* is the sidebar, the drill target is cleared and the saved group index
\* is 0.
C22_ReloadResetsNavigation ==
    [][ ALatestReloadArrives
            => /\ aFocusedIndex' = -1
               /\ aActiveSection' = "sidebar"
               /\ aSelectedGroup' = NoGroup
               /\ aSavedGroupIndex' = 0 ]_vars

(***************************************************************************)
(* Moving between the sidebar and the list (SpecFlat, SpecApp).            *)
(***************************************************************************)

C24_LeftKeepsListState ==
    [][ (aEv' = "ArrowLeft" /\ aActiveSection = "list")
            => /\ aActiveSection' = "sidebar"
               /\ aFocusedIndex' = aFocusedIndex
               /\ aSelectedGroup' = aSelectedGroup
               /\ aSavedGroupIndex' = aSavedGroupIndex
               /\ aFlatItems' = aFlatItems ]_vars

\* Left was pressed inside a drilled group with a row below the first
\* one focused
C24_Witness ==
    /\ aEv = "ArrowLeft"
    /\ aActiveSection = "sidebar"
    /\ aSelectedGroup # NoGroup
    /\ aFocusedIndex > 0
    /\ InRange(aFlatItems, aFocusedIndex)

(***************************************************************************)
(* SpecScroll: the list of src/App.tsx inside its scroll container.  The   *)
(* playlist has arrived and stays; keys, the pointer and the wheel act on  *)
(* the rows, and each step includes the render it causes and the           *)
(* scroll-to-focus effect of lines 128-142.  scrollTo moves the offset of  *)
(* the container at once; the scroll event that handleScroll records is    *)
(* dispatched before the next input event.                                 *)
(***************************************************************************)
sFlat == AppFlatItems(sPlaylist, sSelectedGroup)

sFlatItems == sFlat.items

\* Element.scrollTo: the offset is kept inside the scrollable range
ClampScroll(top, total, viewH) ==
    IF top < 0 THEN 0
    ELSE IF top > MaxScrollTop(total, viewH) THEN MaxScrollTop(total, viewH)
    ELSE top

\* lines 128-142 without the branch of line 137
ScrollToFocusTopOnly(items, total, section, focus, currentScroll, viewH) ==
    IF section = "list" /\ focus # -1 /\ InRange(items, focus)
          /\ At(items, focus).top < currentScroll
    THEN ClampScroll(At(items, focus).top, total, viewH)
    ELSE currentScroll

\* lines 128-142: the offset of the container after the effect ran
ScrollToFocus(items, total, section, focus, currentScroll, viewH) ==
    IF section = "list" /\ focus # -1 /\ InRange(items, focus)
    THEN LET item == At(items, focus) IN
         IF item.top < currentScroll
         THEN ClampScroll(item.top, total, viewH)
         ELSE IF item.top + item.height > currentScroll + viewH
         THEN ClampScroll(item.top + item.height - viewH, total, viewH)
         ELSE currentScroll
    ELSE currentScroll

\* the offset of the container after the render that follows a handler
\* which left it at dom: the content gets its new height, and the effect
\* runs when focusedIndex, activeSection or flatItems changed (line 142;
\* flatItems is rebuilt when selectedGroup changes, line 115)
AfterRender(group, section, focus, dom) ==
    LET flat    == AppFlatItems(sPlaylist, group)
        settled == ClampScroll(dom, flat.totalHeight, sClientHeight)
    IN  IF group # sSelectedGroup \/ section # sActiveSection \/ focus # sFocusedIndex
        THEN ScrollToFocus(flat.items, flat.totalHeight, section, focus, settled,
                           sClientHeight)
        ELSE settled

\* no scroll event is waiting for handleScroll
NoScrollPending == sScrollTop = sDomScrollTop

\* the rows the pointer can be over: those with a part inside the viewport
SVisibleRows ==
    { i \in 0..(Len(sFlatItems) - 1) :
        /\ At(sFlatItems, i).top < sDomScrollTop + sClientHeight
        /\ At(sFlatItems, i).top + At(sFlatItems, i).height > sDomScrollTop }

\* the state after the playlist arrived (lines 57-63) and the container
\* was measured (line 119)
InitScroll ==
    /\ sPlaylist \in FetchedPlaylists
    /\ sSelectedGroup = NoGroup
    /\ sActiveSection = "sidebar"
    /\ sFocusedIndex = -1
    /\ sSavedGroupIndex = 0
    /\ sDomScrollTop = 0
    /\ sScrollTop = 0
    /\ sClientHeight \in ViewportHeights
    /\ sEv = "init"
    /\ IdleFlatten
    /\ IdleFlat
    /\ IdleApp
    /\ IdlePlayer
    /\ IdleRender
    /\ IdleListKeys
    /\ IdleEpgLookup
    /\ IdleEpg
    /\ IdleReady
    /\ IdleOverlay
    /\ IdleRetry

\* lines 173-182
SArrowRight ==
    /\ NoScrollPending
    /\ sActiveSection = "sidebar"
    /\ LET focus == IF sFocusedIndex = -1 THEN 0 ELSE sFocusedIndex IN
          /\ sActiveSection' = "list"
          /\ sFocusedIndex' = focus
          /\ sDomScrollTop' = AfterRender(sSelectedGroup, "list", focus, sDomScrollTop)
    /\ sEv' = "ArrowRight"
    /\ UNCHANGED << sPlaylist, sSelectedGroup, sSavedGroupIndex, sScrollTop,
                    sClientHeight, scrollOthers >>

\* lines 205-212
SArrowLeft ==
    /\ NoScrollPending
    /\ sActiveSection = "list"
    /\ sActiveSection' = "sidebar"
    /\ sDomScrollTop' = AfterRender(sSelectedGroup, "sidebar", sFocusedIndex, sDomScrollTop)
    /\ sEv' = "ArrowLeft"
    /\ UNCHANGED << sPlaylist, sSelectedGroup, sFocusedIndex, sSavedGroupIndex,
                    sScrollTop, sClientHeight, scrollOthers >>

\* lines 231-240
SMove(key) ==
    /\ NoScrollPending
    /\ sActiveSection = "list"
    /\ LET focus == AppNextIndex(sFlatItems, sFocusedIndex, key) IN
          /\ sFocusedIndex' = focus
          /\ sDomScrollTop' = AfterRender(sSelectedGroup, sActiveSection, focus,
                                          sDomScrollTop)
    /\ sEv' = key
    /\ UNCHANGED << sPlaylist, sSelectedGroup, sActiveSection, sSavedGroupIndex,
                    sScrollTop, sClientHeight, scrollOthers >>

SArrowUp   == SMove("ArrowUp")
SArrowDown == SMove("ArrowDown")
SPageUp    == SMove("PageUp")
SPageDown  == SMove("PageDown")

\* Enter on a group row that leaves the offset of the container alone
SEnterGroupKeepsScroll ==
    /\ NoScrollPending
    /\ sActiveSection = "list"
    /\ InRange(sFlatItems, sFocusedIndex)
    /\ At(sFlatItems, sFocusedIndex).type = "group"
    /\ LET group == At(sFlatItems, sFocusedIndex).groupData IN
          /\ sSavedGroupIndex' = sFocusedIndex
          /\ sSelectedGroup' = group
          /\ sFocusedIndex' = 0
          /\ sDomScrollTop' = ClampScroll(sDomScrollTop,
                                  AppFlatItems(sPlaylist, group).totalHeight,
                                  sClientHeight)
    /\ sEv' = "EnterGroup"
    /\ UNCHANGED << sPlaylist, sActiveSection, sScrollTop, sClientHeight, scrollOthers >>

\* lines 213-223: Enter on a group row
SEnterGroup ==
    /\ NoScrollPending
    /\ sActiveSection = "list"
    /\ InRange(sFlatItems, sFocusedIndex)
    /\ At(sFlatItems, sFocusedIndex).type = "group"
    /\ LET group == At(sFlatItems, sFocusedIndex).groupData IN
          /\ sSavedGroupIndex' = sFocusedIndex
          /\ sSelectedGroup' = group
          /\ sFocusedIndex' = 0
          /\ sDomScrollTop' = AfterRender(group, sActiveSection, 0, 0)
    /\ sEv' = "EnterGroup"
    /\ UNCHANGED << sPlaylist, sActiveSection, sScrollTop, sClientHeight, scrollOthers >>

\* lines 161-171: Backspace, Escape or key code 461 inside a group
SBack ==
    /\ NoScrollPending
    /\ sSelectedGroup # NoGroup
    /\ sSelectedGroup' = NoGroup
    /\ sFocusedIndex' = sSavedGroupIndex
    /\ sActiveSection' = "list"
    /\ sDomScrollTop' = AfterRender(NoGroup, "list", sSavedGroupIndex, sDomScrollTop)
    /\ sEv' = "Back"
    /\ UNCHANGED << sPlaylist, sSavedGroupIndex, sScrollTop, sClientHeight, scrollOthers >>

\* lines 283-292 and 339-348: the pointer enters a row
SHover ==
    /\ NoScrollPending
    /\ \E i \in SVisibleRows :
          /\ sFocusedIndex' = i
          /\ sDomScrollTop' = AfterRender(sSelectedGroup, "list", i, sDomScrollTop)
    /\ sActiveSection' = "list"
    /\ sEv' = "Hover"
    /\ UNCHANGED << sPlaylist, sSelectedGroup, sSavedGroupIndex, sScrollTop,
                    sClientHeight, scrollOthers >>

\* lines 293-302: a click on a group row
SClickGroup ==
    /\ NoScrollPending
    /\ \E i \in SVisibleRows :
          /\ At(sFlatItems, i).type = "group"
          /\ sSavedGroupIndex' = i
          /\ sSelectedGroup' = At(sFlatItems, i).groupData
          /\ sDomScrollTop' = AfterRender(At(sFlatItems, i).groupData, "list", 0, 0)
    /\ sFocusedIndex' = 0
    /\ sActiveSection' = "list"
    /\ sEv' = "ClickGroup"
    /\ UNCHANGED << sPlaylist, sScrollTop, sClientHeight, scrollOthers >>

\* the wheel or a drag moves the container
SWheel ==
    /\ NoScrollPending
    /\ \E top \in ScrollOffsets :
          /\ top # sDomScrollTop
          /\ top <= MaxScrollTop(sFlat.totalHeight, sClientHeight)
          /\ sDomScrollTop' = top
    /\ sEv' = "Wheel"
    /\ UNCHANGED << sPlaylist, sSelectedGroup, sActiveSection, sFocusedIndex,
                    sSavedGroupIndex, sScrollTop, sClientHeight, scrollOthers >>

\* a scroll handler that runs the scroll-to-focus effect again
SHandleScrollRefocuses ==
    /\ ~NoScrollPending
    /\ sScrollTop' = sDomScrollTop
    /\ sDomScrollTop' = ScrollToFocus(sFlatItems, sFlat.totalHeight, sActiveSection,
                                      sFocusedIndex, sDomScrollTop, sClientHeight)
    /\ sEv' = "Scroll"
    /\ UNCHANGED << sPlaylist, sSelectedGroup, sActiveSection, sFocusedIndex,
                    sSavedGroupIndex, sClientHeight, scrollOthers >>

\* line 125: handleScroll on the scroll event of the container
SHandleScroll ==
    /\ ~NoScrollPending
    /\ sScrollTop' = sDomScrollTop
    /\ sEv' = "Scroll"
    /\ UNCHANGED << sPlaylist, sSelectedGroup, sActiveSection, sFocusedIndex,
                    sSavedGroupIndex, sDomScrollTop, sClientHeight, scrollOthers >>

NextScroll ==
    \/ SArrowRight
    \/ SArrowLeft
    \/ SArrowUp
    \/ SArrowDown
    \/ SPageUp
    \/ SPageDown
    \/ SEnterGroup
    \/ SBack
    \/ SHover
    \/ SClickGroup
    \/ SWheel
    \/ SHandleScroll

SpecScroll == InitScroll /\ [][NextScroll]_vars

SEffectRuns ==
    \/ sFocusedIndex' # sFocusedIndex
    \/ sActiveSection' # sActiveSection
    \/ sSelectedGroup' # sSelectedGroup

\* C28: when the list is the active region, the focus index names a row
\* and the viewport is at least one row high, the row is fully inside the
\* viewport after the scroll-to-focus step; over unchanged rows the offset
\* becomes the top of the row if the top was above the offset, bottom -
\* viewportHeight if the bottom was below the viewport, and stays as it
\* was if the row was fully visible.
C28_FocusScrolledIntoView ==
    [][ (/\ SEffectRuns
         /\ sActiveSection' = "list"
         /\ InRange(sFlatItems', sFocusedIndex')
         /\ sClientHeight >= CHANNEL_HEIGHT)
            => LET top    == At(sFlatItems', sFocusedIndex').top
                   bottom == top + At(sFlatItems', sFocusedIndex').height
               IN  /\ sDomScrollTop' <= top
                   /\ bottom <= sDomScrollTop' + sClientHeight
                   /\ (sSelectedGroup' = sSelectedGroup) =>
                         sDomScrollTop' =
                             IF top < sDomScrollTop THEN top
                             ELSE IF bottom > sDomScrollTop + sClientHeight
                             THEN bottom - sClientHeight
                             ELSE sDomScrollTop ]_vars

\* Down moved the focus to the third row of a viewport two rows high: the
\* list scrolled until the bottom of the row met the bottom of the viewport
C28_Witness ==
    /\ sEv = "ArrowDown"
    /\ sActiveSection = "list"
    /\ sClientHeight = 2 * CHANNEL_HEIGHT
    /\ sFocusedIndex = 2
    /\ InRange(sFlatItems, sFocusedIndex)
    /\ sDomScrollTop = CHANNEL_HEIGHT

\* C29: a scroll event, whether the wheel or the scroll-to-focus effect
\* caused it, changes only the recorded scroll offset: the focus index and
\* the active region stay, and the offset of the container is not moved
\* again (the effect does not run on it).
C29_ScrollOnlyRecords ==
    [][ (sEv' = "Scroll")
            => /\ sScrollTop' = sDomScrollTop
               /\ sDomScrollTop' = sDomScrollTop
               /\ sFocusedIndex' = sFocusedIndex
               /\ sActiveSection' = sActiveSection
               /\ sSelectedGroup' = sSelectedGroup
               /\ sSavedGroupIndex' = sSavedGroupIndex ]_vars

\* the wheel moved the focused row out of the viewport and the scroll
\* event was handled: the row is still outside
C29_Witness ==
    /\ sEv = "Scroll"
    /\ sActiveSection = "list"
    /\ InRange(sFlatItems, sFocusedIndex)
    /\ sClientHeight >= CHANNEL_HEIGHT
    /\ At(sFlatItems, sFocusedIndex).top + CHANNEL_HEIGHT <= sDomScrollTop
    /\ sScrollTop = sDomScrollTop

(***************************************************************************)
(* The list while a channel plays (SpecApp).                               *)
(***************************************************************************)

\* C26: Enter on a channel row changes only the selected channel, and
\* while the playback session lasts nothing, zapping inside the player and
\* closing it included, changes the focus index, the active region, the
\* drill target or the saved group index: closing the player returns to
\* the row that was focused.
C26_PlaybackKeepsNavigation ==
    [][ (\/ aSelectedChannel # 0
         \/ /\ aEv' = "Enter"
            /\ InRange(aFlatItems, aFocusedIndex)
            /\ At(aFlatItems, aFocusedIndex).type = "channel")
            => /\ aFocusedIndex' = aFocusedIndex
               /\ aActiveSection' = aActiveSection
               /\ aSelectedGroup' = aSelectedGroup
               /\ aSavedGroupIndex' = aSavedGroupIndex ]_vars

(***************************************************************************)
(* Keys during a category reload (SpecApp).                                *)
(***************************************************************************)
KeyEvents == {"Back", "ArrowLeft", "ArrowRight", "Enter",
              "ArrowUp", "ArrowDown", "PageUp", "PageDown"}

\* a fetchPlaylist of some run of loadData has not resolved yet
ReloadInProgress == \E c \in DOMAIN aFetches : aFetches[c] > 0

\* C27: while a category reload is in progress (a playlist fetch is
\* outstanding), a key event changes neither the focus index, the active
\* region, the drill target nor the selected channel.
C27_KeysIgnoredDuringReload ==
    [][ (ReloadInProgress /\ aEv' \in KeyEvents)
            => /\ aFocusedIndex' = aFocusedIndex
               /\ aActiveSection' = aActiveSection
               /\ aSelectedGroup' = aSelectedGroup
               /\ aSelectedChannel' = aSelectedChannel ]_vars

(***************************************************************************)
(* The rendered range against a linear scan (SpecRender).                  *)
(***************************************************************************)
\* lines 250-274: the render computes a range (it does not return null)
RangeComputed == ~vLoading /\ Len(vItems) > 0

\* the indices the render computes in the current state
vStartIndex == StartIndex(vRevision, vItems, vScrollTop)
vEndIndex   == EndIndex(vRevision, vItems, vScrollTop, vContainerHeight)

\* the bounds of the overscanned viewport
ViewTop    == vScrollTop - Overscan(vRevision)
ViewBottom == vScrollTop + vContainerHeight + Overscan(vRevision)

\* the linear reference scans: i is the first row that ends at or below the
\* upper bound, i is the last row that starts at or above the lower bound
IsFirstEndingBelow(i) ==
    /\ InRange(vItems, i)
    /\ At(vItems, i).top + At(vItems, i).height >= ViewTop
    /\ \A j \in 0..(i - 1) : At(vItems, j).top + At(vItems, j).height < ViewTop

IsLastStartingAbove(i) ==
    /\ InRange(vItems, i)
    /\ At(vItems, i).top <= ViewBottom
    /\ \A j \in (i + 1)..(Len(vItems) - 1) : At(vItems, j).top > ViewBottom

\* some row ends at or below the upper bound of the overscanned viewport
SomeRowEndsBelow ==
    \E i \in 0..(Len(vItems) - 1) : At(vItems, i).top + At(vItems, i).height >= ViewTop

\* every row that intersects the overscanned viewport is among the rendered
EveryVisibleRowRendered ==
    \A i \in 0..(Len(vItems) - 1) :
       (/\ At(vItems, i).top + At(vItems, i).height >= ViewTop
        /\ At(vItems, i).top <= ViewBottom)
          => \E k \in 1..Len(vRendered) : vRendered[k].index = i

\* C30 as stated: for every row sequence and every scroll offset startIndex
\* is the smallest index whose top + height >= scrollOffset - overscan and
\* endIndex is the largest index whose top <= scrollOffset + viewportHeight
\* + overscan.
C30_Orig ==
    RangeComputed => IsFirstEndingBelow(vStartIndex) /\ IsLastStartingAbove(vEndIndex)

\* C30: whenever some row ends at or below scrollOffset - overscan,
\* startIndex is the smallest index of such a row and endIndex the largest
\* index whose top <= scrollOffset + viewportHeight + overscan, as a linear
\* scan finds them; when the recorded offset lies so far below the rows that
\* no row does, both indices are the row count and nothing is rendered.  In
\* both cases every row that intersects the overscanned viewport is rendered.
C30_RangeMatchesLinearScan ==
    RangeComputed =>
       /\ SomeRowEndsBelow
             => IsFirstEndingBelow(vStartIndex) /\ IsLastStartingAbove(vEndIndex)
       /\ ~SomeRowEndsBelow
             => /\ vStartIndex = Len(vItems)
                /\ vEndIndex = Len(vItems)
                /\ vRendered = << >>
       /\ EveryVisibleRowRendered

\* the search skipped rows above the viewport and the scan stopped before
\* the last row
C30_Witness ==
    /\ RangeComputed
    /\ IsFirstEndingBelow(vStartIndex)
    /\ vStartIndex > 1
    /\ vEndIndex > vStartIndex
    /\ vEndIndex < Len(vItems) - 1

(***************************************************************************)
(* The renderer with nothing to show or nothing measured (SpecRender).     *)
(***************************************************************************)

\* C31: the renderer materializes no rows when the row sequence is empty,
\* and materializes no rows while the viewport height is 0.
C31_NothingRenderedUnmeasured ==
    (Len(vItems) = 0 \/ vContainerHeight = 0) => vRendered = << >>

\* the part of C31 about the empty row sequence alone
C31_EmptyRowsPart == (Len(vItems) = 0) => vRendered = << >>

(***************************************************************************)
(* SpecReady: the listeners the video effect of VideoPlayer.tsx (lines     *)
(* 165-227) installs on the video element and on the Hls instance to end   *)
(* the Loading state.  The element lives as long as the player is mounted; *)
(* the effect runs at the mount and at every change of the channel.  Its   *)
(* cleanup removes the named listeners; the 'timeupdate' listener is an    *)
(* anonymous function, it is never removed and keeps the isLoading value   *)
(* of the render that installed it.                                        *)
(***************************************************************************)
\* line 210 with the listener of the previous effect run removed
AddTimeListenerReplacing(old, captured) == {captured}

\* line 210: addEventListener('timeupdate', ...) of an effect run whose
\* render saw isLoading = captured
AddTimeListener(old, captured) == old \cup {captured}

\* line 210: some 'timeupdate' listener passes its `&& isLoading` test
SomeListenerSawLoading(listeners) == \E l \in listeners : l

InitReady ==
    /\ rPlatform \in {"native", "hlsjs"}
    /\ rMounted = FALSE
    /\ rIsLoading = FALSE
    /\ rPaused = TRUE
    /\ rTimeListeners = {}
    /\ rPlayCmd = FALSE
    /\ rWasLoading = FALSE
    /\ rEv = "init"
    /\ IdleFlatten
    /\ IdleFlat
    /\ IdleApp
    /\ IdlePlayer
    /\ IdleRender
    /\ IdleListKeys
    /\ IdleEpgLookup
    /\ IdleEpg
    /\ IdleScroll
    /\ IdleOverlay
    /\ IdleRetry

\* the player mounts: isLoading starts true (line 25), the effect installs
\* the listeners and calls loadStream
ROpen ==
    /\ ~rMounted
    /\ rMounted' = TRUE
    /\ rIsLoading' = TRUE
    /\ rPaused' = TRUE
    /\ rTimeListeners' = AddTimeListener({}, TRUE)
    /\ rPlayCmd' = FALSE
    /\ rWasLoading' = rIsLoading
    /\ rEv' = "Open"
    /\ UNCHANGED << rPlatform, readyOthers >>

\* the channel prop changes: the cleanup runs (video.load() pauses the
\* element), then the effect of the render that saw the current isLoading
RChannelChange ==
    /\ rMounted
    /\ rTimeListeners' = AddTimeListener(rTimeListeners, rIsLoading)
    /\ rIsLoading' = TRUE
    /\ rPaused' = TRUE
    /\ rPlayCmd' = FALSE
    /\ rWasLoading' = rIsLoading
    /\ rEv' = "ChannelChange"
    /\ UNCHANGED << rPlatform, rMounted, readyOthers >>

\* lines 174-196 called by the retry timer: setIsLoading(true) and a new
\* load of the element
RRetryLoad ==
    /\ rMounted
    /\ rIsLoading' = TRUE
    /\ rPaused' = TRUE
    /\ rPlayCmd' = FALSE
    /\ rWasLoading' = rIsLoading
    /\ rEv' = "RetryLoad"
    /\ UNCHANGED << rPlatform, rMounted, rTimeListeners, readyOthers >>

\* line 503: the autoPlay attribute starts playback without a play() call
RAutoPlay ==
    /\ rMounted
    /\ rPaused
    /\ rPaused' = FALSE
    /\ rPlayCmd' = FALSE
    /\ rWasLoading' = rIsLoading
    /\ rEv' = "AutoPlay"
    /\ UNCHANGED << rPlatform, rMounted, rIsLoading, rTimeListeners, readyOthers >>

StreamReadyEvents == {"loadedmetadata", "canplay", "playing"}

\* line 204, handleStreamReady on 'loadedmetadata', 'canplay' or 'playing'
\* (lines 207-209); play() may be rejected, the rejection is swallowed
RStreamReady(e) ==
    /\ rMounted
    /\ (e = "playing") => ~rPaused
    /\ rIsLoading' = FALSE
    /\ rPlayCmd' = rPaused
    /\ rPaused' \in (IF rPaused THEN {TRUE, FALSE} ELSE {FALSE})
    /\ rWasLoading' = rIsLoading
    /\ rEv' = e
    /\ UNCHANGED << rPlatform, rMounted, rTimeListeners, readyOthers >>

\* line 210: 'timeupdate'; advanced stands for video.currentTime > 0.1 of a
\* playing element
RTimeUpdate(advanced) ==
    /\ rMounted
    /\ advanced => ~rPaused
    /\ rIsLoading' = IF advanced /\ SomeListenerSawLoading(rTimeListeners)
                     THEN FALSE ELSE rIsLoading
    /\ rPlayCmd' = FALSE
    /\ rWasLoading' = rIsLoading
    /\ rEv' = IF advanced THEN "timeadvance" ELSE "timeupdate"
    /\ UNCHANGED << rPlatform, rMounted, rPaused, rTimeListeners, readyOthers >>

\* line 190: MANIFEST_PARSED of the Hls instance
RManifestParsed ==
    /\ rMounted
    /\ rPlatform = "hlsjs"
    /\ rIsLoading' = FALSE
    /\ rPlayCmd' = TRUE
    /\ rPaused' \in (IF rPaused THEN {TRUE, FALSE} ELSE {FALSE})
    /\ rWasLoading' = rIsLoading
    /\ rEv' = "ManifestParsed"
    /\ UNCHANGED << rPlatform, rMounted, rTimeListeners, readyOthers >>

\* the player unmounts: the element and its listeners are gone
RClose ==
    /\ rMounted
    /\ rMounted' = FALSE
    /\ rIsLoading' = FALSE
    /\ rPaused' = TRUE
    /\ rTimeListeners' = {}
    /\ rPlayCmd' = FALSE
    /\ rWasLoading' = rIsLoading
    /\ rEv' = "Close"
    /\ UNCHANGED << rPlatform, readyOthers >>

NextReady ==
    \/ ROpen
    \/ RChannelChange
    \/ RRetryLoad
    \/ RAutoPlay
    \/ \E e \in StreamReadyEvents : RStreamReady(e)
    \/ \E advanced \in BOOLEAN : RTimeUpdate(advanced)
    \/ RManifestParsed
    \/ RClose

SpecReady == InitReady /\ [][NextReady]_vars

ReadinessEvents == StreamReadyEvents \cup {"timeadvance"}

\* C32: while a session is Loading, the first readiness event (metadata
\* loaded, can-play, playing, or playback time advancing) clears the
\* loading indicator, and a play command is issued if the video is paused
\* at that moment.
C32_ReadinessEndsLoading ==
    [][ (rIsLoading /\ rEv' \in ReadinessEvents)
            => /\ ~rIsLoading'
               /\ rPaused => rPlayCmd' ]_vars

\* advancing playback time ended Loading in a session that was started
\* while the previous channel was playing
C32_Witness ==
    /\ rEv = "timeadvance"
    /\ rWasLoading
    /\ ~rIsLoading
    /\ FALSE \in rTimeListeners

(***************************************************************************)
(* Groups without channels (SpecFlatten).                                  *)
(***************************************************************************)
HasChannels(group) == Len(group.channels) > 0

\* the groups of a playlist that have a channel, in playlist order
GroupsWithChannels(playlist) == SelectSeq(playlist, HasChannels)

EmptyGroupTitles(playlist) ==
    { playlist[g].title : g \in { h \in 1..Len(playlist) : ~HasChannels(playlist[h]) } }

\* C33: flatten emits no row for a group with zero channels in any view;
\* for an empty playlist, or one whose groups are all empty, it returns no
\* rows and total height 0; in the groups view there is exactly one group
\* row per non-empty group, in playlist order.
C33_EmptyGroupsOmitted ==
    (inView # "none") =>
       /\ \A i \in 1..Len(outItems) :
             /\ outItems[i].type \in {"header", "group"}
                   => outItems[i].title \notin EmptyGroupTitles(inGroups)
             /\ outItems[i].type = "channel"
                   => outItems[i].data.group \notin EmptyGroupTitles(inGroups)
       /\ (inView = "channels" /\ ~HasChannels(At(inGroups, inDrill)))
             => outItems = << >> /\ outTotal = 0
       /\ (inView \in {"flat", "groups"} /\ GroupsWithChannels(inGroups) = << >>)
             => outItems = << >> /\ outTotal = 0
       /\ (inView = "groups")
             => /\ Len(outItems) = Len(GroupsWithChannels(inGroups))
                /\ \A i \in 1..Len(outItems) :
                      /\ outItems[i].type = "group"
                      /\ outItems[i].groupData = GroupsWithChannels(inGroups)[i]

\* the groups view of a playlist with an empty group between two others
C33_Witness ==
    /\ inView = "groups"
    /\ Len(inGroups) = 3
    /\ HasChannels(inGroups[1]) /\ ~HasChannels(inGroups[2]) /\ HasChannels(inGroups[3])
    /\ Len(outItems) = 2

(***************************************************************************)
(* Channel numbers (SpecFlatten).                                          *)
(***************************************************************************)
\* the number of channel rows among the first i rows
ChannelRowsUpTo(items, i) ==
    Cardinality({ j \in 1..i : items[j].type = "channel" })

\* C34: the k-th channel row of the flattened sequence carries channel
\* number k, whatever number of header rows precede it.
C34_ChannelNumbers ==
    (inView # "none") =>
       \A i \in 1..Len(outItems) :
          (outItems[i].type = "channel")
             => outItems[i].channelNumber = ChannelRowsUpTo(outItems, i)

\* the third channel row comes after two header rows
C34_Witness ==
    /\ inView = "flat"
    /\ \E i \in 1..Len(outItems) :
          /\ outItems[i].type = "channel"
          /\ outItems[i].channelNumber = 3
          /\ i = 5

(***************************************************************************)
(* The playlist of rapidly switched categories (SpecEpg).                  *)
(***************************************************************************)
\* line 55: the category whose URL run r of loadData fetches; run 1 is the
\* one of the mount and every later run follows a switch to the other
\* category
CategoryOfRun(r) == IF r % 2 = 1 THEN Categories[1] ELSE Categories[2]

\* C35: once every outstanding playlist fetch has resolved, the playlist is
\* the one fetched for the active category, in whatever order the fetches
\* resolved: the result of a superseded fetch never replaces the latest.
C35_LatestPlaylistShown ==
    (ePlaylistPending = {})
        => ePlaylistOf # 0 /\ CategoryOfRun(ePlaylistOf) = eActiveCategory

(***************************************************************************)
(* The drill target and the playlist (SpecApp).                            *)
(***************************************************************************)
\* C36: whenever a drill target (selectedGroup) is set, it is one of the
\* groups of the current playlist; a reload that replaces the playlist
\* never leaves a drill target of the previous playlist in place.
C36_DrillTargetInPlaylist ==
    (aSelectedGroup # NoGroup)
        => \E g \in 1..Len(aPlaylist) : aPlaylist[g] = aSelectedGroup

(***************************************************************************)
(* SpecOverlay: the channel list overlay of VideoPlayer.tsx, its keys       *)
(* (lines 246-361), its pointer handlers (lines 395-453, 530-558) and the  *)
(* derived state sync of lines 51-68.  The player is opened from the       *)
(* channels of a group (App.tsx line 454), so currentChannelList starts    *)
(* as the channels of the group of the playing channel.  A handler, the    *)
(* render that follows and the effects that copy the state to the refs     *)
(* are one step.                                                           *)
(***************************************************************************)
Min(a, b) == IF a <= b THEN a ELSE b

\* Array.prototype.findIndex(c => c.id === id): -1 when there is none
FindIndex(list, id) ==
    IF \E i \in 0..(Len(list) - 1) : At(list, i).id = id
    THEN CHOOSE i \in 0..(Len(list) - 1) :
            /\ At(list, i).id = id
            /\ \A j \in 0..(i - 1) : At(list, j).id # id
    ELSE -1

\* line 371: the list the overlay displays
DataList == IF oViewMode = "channels" THEN oCurrentList ELSE oPlaylist

\* line 266
activeListLength == Len(DataList)

\* lines 51-68: the render after the channel prop became c; the channel is
\* looked up in currentChannelList, else in the group of its title
DerivedSync(c, list, idx) ==
    IF FindIndex(list, c.id) # -1
    THEN [list |-> list, idx |-> FindIndex(list, c.id)]
    ELSE IF \E g \in 1..Len(oPlaylist) : oPlaylist[g].title = c.group
    THEN LET group == oPlaylist[CHOOSE g \in 1..Len(oPlaylist) : oPlaylist[g].title = c.group]
         IN  [list |-> group.channels,
              idx  |-> IF FindIndex(group.channels, c.id) # -1
                       THEN FindIndex(group.channels, c.id) ELSE idx]
    ELSE [list |-> list, idx |-> idx]

\* onChannelSelect(target): the parent sets the channel prop; undefined
\* unmounts the player (App.tsx line 452)
ChannelSelected(target) ==
    /\ oChannel' = target
    /\ oCurrentList' = DerivedSync(target, oCurrentList, oSelectedIndex).list
    /\ oSelectedIndex' = DerivedSync(target, oCurrentList, oSelectedIndex).idx

\* the player after its first render, opened on a channel of a group
InitOverlay ==
    /\ oPlaylist \in FetchedPlaylists
    /\ Len(oPlaylist) > 0
    /\ \E g \in 1..Len(oPlaylist) :
          /\ oCurrentList = oPlaylist[g].channels
          /\ \E k \in 1..Len(oCurrentList) : oChannel = oCurrentList[k]
    /\ oSelectedIndex = FindIndex(oCurrentList, oChannel.id)
    /\ oIsListOpen = FALSE
    /\ oViewMode = "channels"
    /\ oFocusArea = "list"
    /\ oEv = "init"
    /\ IdleFlatten
    /\ IdleFlat
    /\ IdleApp
    /\ IdlePlayer
    /\ IdleRender
    /\ IdleListKeys
    /\ IdleEpgLookup
    /\ IdleEpg
    /\ IdleScroll
    /\ IdleReady
    /\ IdleRetry

OMounted == oChannel # NoChannel

\* lines 295-305, 338-340, 505-507: ArrowUp, ArrowDown or Enter with the
\* overlay closed, or a click on the video
OOpenList ==
    /\ OMounted
    /\ ~oIsListOpen
    /\ oIsListOpen' = TRUE
    /\ oEv' = "OpenList"
    /\ UNCHANGED << oPlaylist, oChannel, oCurrentList, oViewMode, oFocusArea,
                    oSelectedIndex, listOthers >>

\* lines 295-326 with the overlay open and the focus on the list: ArrowUp
\* and PageDown step back, ArrowDown and PageUp step forward
OMove(key) ==
    /\ OMounted
    /\ oIsListOpen /\ oFocusArea = "list"
    /\ oSelectedIndex' = IF key \in {"ArrowUp", "PageDown"}
                         THEN Max(0, oSelectedIndex - 1)
                         ELSE Min(activeListLength - 1, oSelectedIndex + 1)
    /\ oEv' = key
    /\ UNCHANGED << oPlaylist, oChannel, oCurrentList, oIsListOpen, oViewMode,
                    oFocusArea, listOthers >>

\* lines 311-326 with the overlay closed: PageUp asks for the next channel
\* of currentChannelList, PageDown for the previous one
OZap(key) ==
    /\ OMounted
    /\ ~oIsListOpen
    /\ LET idx == IF key = "PageUp"
                  THEN Min(Len(oCurrentList) - 1, oSelectedIndex + 1)
                  ELSE Max(0, oSelectedIndex - 1)
       IN  /\ idx # oSelectedIndex
           /\ IF InRange(oCurrentList, idx)
              THEN ChannelSelected(At(oCurrentList, idx))
              ELSE oChannel' = NoChannel /\ UNCHANGED << oCurrentList, oSelectedIndex >>
    /\ oEv' = IF key = "PageUp" THEN "ChannelUp" ELSE "ChannelDown"
    /\ UNCHANGED << oPlaylist, oIsListOpen, oViewMode, oFocusArea, listOthers >>

\* lines 289-293
OKeyLeft ==
    /\ OMounted
    /\ oIsListOpen /\ oViewMode = "channels" /\ oFocusArea = "list"
    /\ oFocusArea' = "sidebar"
    /\ oEv' = "ArrowLeft"
    /\ UNCHANGED << oPlaylist, oChannel, oCurrentList, oIsListOpen, oViewMode,
                    oSelectedIndex, listOthers >>

\* lines 294-298
OKeyRight ==
    /\ OMounted
    /\ oIsListOpen /\ oViewMode = "channels" /\ oFocusArea = "sidebar"
    /\ oFocusArea' = "list"
    /\ oEv' = "ArrowRight"
    /\ UNCHANGED << oPlaylist, oChannel, oCurrentList, oIsListOpen, oViewMode,
                    oSelectedIndex, listOthers >>

\* lines 331-337: Enter with the focus on the group button
OEnterSidebar ==
    /\ OMounted
    /\ oIsListOpen /\ oFocusArea = "sidebar"
    /\ oViewMode' = "groups"
    /\ oFocusArea' = "list"
    /\ oSelectedIndex' = 0
    /\ oEv' = "EnterSidebar"
    /\ UNCHANGED << oPlaylist, oChannel, oCurrentList, oIsListOpen, listOthers >>

\* lines 339-346 (Enter) and 400-406 (click) on the group row i; Enter on
\* an index without a row reads .channels of undefined and throws
OEnterGroup(i, ev) ==
    /\ OMounted
    /\ oIsListOpen /\ oViewMode = "groups"
    /\ ev = "Enter" => (oFocusArea = "list" /\ i = oSelectedIndex)
    /\ ev = "Click" => InRange(oPlaylist, i)
    /\ IF InRange(oPlaylist, i)
       THEN /\ oCurrentList' = At(oPlaylist, i).channels
            /\ oViewMode' = "channels"
            /\ oSelectedIndex' = 0
            /\ oEv' = "EnterGroup"
       ELSE /\ oEv' = "EnterThrows"
            /\ UNCHANGED << oCurrentList, oViewMode, oSelectedIndex >>
    /\ UNCHANGED << oPlaylist, oChannel, oIsListOpen, oFocusArea, listOthers >>

\* lines 347-352 (Enter) and 448-453 (click) on the channel row i: the row
\* of the playing channel closes the overlay, another one is selected
OEnterChannel(i, ev) ==
    /\ OMounted
    /\ oIsListOpen /\ oViewMode = "channels"
    /\ ev = "Enter" => (oFocusArea = "list" /\ i = oSelectedIndex)
    /\ InRange(oCurrentList, i)
    /\ IF At(oCurrentList, i).id = oChannel.id
       THEN /\ oIsListOpen' = FALSE
            /\ oSelectedIndex' = i
            /\ UNCHANGED << oChannel, oCurrentList >>
       ELSE /\ oChannel' = At(oCurrentList, i)
            /\ oCurrentList' = DerivedSync(At(oCurrentList, i), oCurrentList, i).list
            /\ oSelectedIndex' = DerivedSync(At(oCurrentList, i), oCurrentList, i).idx
            /\ UNCHANGED oIsListOpen
    /\ oEv' = "EnterChannel"
    /\ UNCHANGED << oPlaylist, oViewMode, oFocusArea, listOthers >>

\* lines 552-555: a click on the group button
OClickGroupButton ==
    /\ OMounted
    /\ oIsListOpen /\ oViewMode = "channels"
    /\ oViewMode' = "groups"
    /\ oFocusArea' = "list"
    /\ oEv' = "ClickGroupButton"
    /\ UNCHANGED << oPlaylist, oChannel, oCurrentList, oIsListOpen, oSelectedIndex,
                    listOthers >>

\* line 556: the pointer enters the group button
OHoverGroupButton ==
    /\ OMounted
    /\ oIsListOpen /\ oViewMode = "channels"
    /\ oFocusArea' = "sidebar"
    /\ oEv' = "HoverGroupButton"
    /\ UNCHANGED << oPlaylist, oChannel, oCurrentList, oIsListOpen, oViewMode,
                    oSelectedIndex, listOthers >>

\* lines 395-398, 443-446: the pointer enters the rendered row i
OHoverRow(i) ==
    /\ OMounted
    /\ oIsListOpen
    /\ InRange(DataList, i)
    /\ oFocusArea' = "list"
    /\ oSelectedIndex' = i
    /\ oEv' = "HoverRow"
    /\ UNCHANGED << oPlaylist, oChannel, oCurrentList, oIsListOpen, oViewMode, listOthers >>

\* lines 268-283: Back with the overlay open
OKeyBack ==
    /\ OMounted
    /\ oIsListOpen
    /\ IF oViewMode = "groups"
       THEN /\ oViewMode' = "channels"
            /\ oFocusArea' = "list"
            /\ oSelectedIndex' = IF FindIndex(oCurrentList, oChannel.id) # -1
                                 THEN FindIndex(oCurrentList, oChannel.id) ELSE 0
            /\ UNCHANGED oIsListOpen
       ELSE /\ oIsListOpen' = FALSE
            /\ UNCHANGED << oViewMode, oFocusArea, oSelectedIndex >>
    /\ oEv' = "Back"
    /\ UNCHANGED << oPlaylist, oChannel, oCurrentList, listOthers >>

\* line 532 (click on the backdrop) and lines 143-146 (popstate with the
\* overlay open)
OCloseList ==
    /\ OMounted
    /\ oIsListOpen
    /\ oIsListOpen' = FALSE
    /\ oEv' = "CloseList"
    /\ UNCHANGED << oPlaylist, oChannel, oCurrentList, oViewMode, oFocusArea,
                    oSelectedIndex, listOthers >>

OverlayRows == 0..(MaxGroups * MaxChannels)

NextOverlay ==
    \/ OOpenList
    \/ \E key \in {"ArrowUp", "ArrowDown", "PageUp", "PageDown"} : OMove(key)
    \/ \E key \in {"PageUp", "PageDown"} : OZap(key)
    \/ OKeyLeft
    \/ OKeyRight
    \/ OEnterSidebar
    \/ \E i \in OverlayRows, ev \in {"Enter", "Click"} : OEnterGroup(i, ev)
    \/ \E i \in OverlayRows, ev \in {"Enter", "Click"} : OEnterChannel(i, ev)
    \/ OClickGroupButton
    \/ OHoverGroupButton
    \/ \E i \in OverlayRows : OHoverRow(i)
    \/ OKeyBack
    \/ OCloseList

SpecOverlay == InitOverlay /\ [][NextOverlay]_vars

\* C37: after any sequence of key, hover and click events in the player
\* overlay, selectedIndex is a valid index into the list displayed (the
\* current channel list in channels view, the group list in groups view).
C37_SelectedIndexValid == OMounted => InRange(DataList, oSelectedIndex)

\* C38: whenever the overlay is closed, selectedIndex is the position of
\* the playing channel in the current channel list.
C38_ClosedIndexIsPlaying ==
    (OMounted /\ ~oIsListOpen)
        => /\ InRange(oCurrentList, oSelectedIndex)
           /\ At(oCurrentList, oSelectedIndex).id = oChannel.id

(***************************************************************************)
(* SpecRetry: the retry timer of the video effect (VideoPlayer.tsx lines   *)
(* 165-227).  Time is counted in seconds; a timer fires no earlier than    *)
(* its due time.  retryTimeoutRef is one ref of the component, shared by   *)
(* the closures of every run of the effect, and the handle it holds is     *)
(* not reset when the timer fires.  An engine created by a retry while     *)
(* another one is referenced stays alive with its ERROR handler (leaked).  *)
(***************************************************************************)
\* line 201: the delay of setTimeout, 3000 ms
RetryDelay == 3

MaxClock == 7
MaxTimerId == 4

\* clearTimeout with nothing cancelled
ClearTimeoutNoop(timers, handle) == timers

\* clearTimeout(handle): a handle already fired or cancelled cancels nothing
ClearTimeout(timers, handle) == {t \in timers : t.id # handle}

\* lines 174-197 as far as the engines go: hls.js creates an engine and
\* points hlsRef at it without destroying the one referenced before
LoadStreamEngines ==
    IF tPlatform = "hls"
    THEN /\ tRefLive' = TRUE
         /\ tLeaked' = IF tRefLive THEN tLeaked + 1 ELSE tLeaked
    ELSE UNCHANGED << tRefLive, tLeaked >>

\* lines 199-202: cancel the timer of the ref, schedule a new one
RetryConnectionTimers ==
    /\ tTimers' = ClearTimeout(tTimers, tRef) \cup {[id |-> tNextId, due |-> tNow + RetryDelay]}
    /\ tRef' = tNextId
    /\ tNextId' = tNextId + 1
    /\ tLastTrigger' = tNow
    /\ tBurst' = IF ClearTimeout(tTimers, tRef) # tTimers THEN tBurst + 1 ELSE 1
    /\ tLoads' = 0

InitRetry ==
    /\ tPlatform \in {"native", "hls"}
    /\ tMounted = TRUE
    /\ tNow = 0
    /\ tTimers = {}
    /\ tNextId = 1
    /\ tRef = 0
    /\ tRefLive = (tPlatform = "hls")
    /\ tLeaked = 0
    /\ tLastTrigger = -1
    /\ tBurst = 0
    /\ tLoads = 0
    /\ tEv = "init"
    /\ IdleFlatten
    /\ IdleFlat
    /\ IdleApp
    /\ IdlePlayer
    /\ IdleRender
    /\ IdleListKeys
    /\ IdleEpgLookup
    /\ IdleEpg
    /\ IdleScroll
    /\ IdleReady
    /\ IdleOverlay

\* a second passes
TTick ==
    /\ tNow < MaxClock
    /\ tNow' = tNow + 1
    /\ tEv' = "tick"
    /\ UNCHANGED << tPlatform, tMounted, tTimers, tNextId, tRef, tRefLive, tLeaked,
                    tLastTrigger, tBurst, tLoads, retryOthers >>

\* lines 191-193: a fatal error of the engine hlsRef points at
TEngineError ==
    /\ tRefLive
    /\ tNextId <= MaxTimerId
    /\ tRefLive' = FALSE
    /\ RetryConnectionTimers
    /\ tEv' = "EngineError"
    /\ UNCHANGED << tPlatform, tMounted, tNow, tLeaked, retryOthers >>

\* lines 191-193: a fatal error of a leaked engine
TLeakedEngineError ==
    /\ tLeaked > 0
    /\ tNextId <= MaxTimerId
    /\ tLeaked' = tLeaked - 1
    /\ RetryConnectionTimers
    /\ tEv' = "LeakedEngineError"
    /\ UNCHANGED << tPlatform, tMounted, tNow, tRefLive, retryOthers >>

\* lines 205, 211, 212: the error and stalled events of the video element
TElementEvent(e) ==
    /\ tMounted
    /\ tNextId <= MaxTimerId
    /\ RetryConnectionTimers
    /\ tEv' = e
    /\ UNCHANGED << tPlatform, tMounted, tNow, tRefLive, tLeaked, retryOthers >>

\* line 201: the timer fires and calls loadStream
TRetryFires ==
    /\ \E t \in tTimers :
          /\ t.due <= tNow
          /\ tTimers' = tTimers \ {t}
    /\ tPlatform = "hls" /\ tRefLive => tLeaked < MaxLeaked
    /\ LoadStreamEngines
    /\ tLoads' = tLoads + 1
    /\ tEv' = "RetryFires"
    /\ UNCHANGED << tPlatform, tMounted, tNow, tNextId, tRef, tLastTrigger, tBurst,
                    retryOthers >>

\* lines 216-218 then 169-214: the channel changes; the cleanup and the
\* next run of the effect destroy the referenced engine and cancel the
\* timer of the ref, then loadStream runs
TChannelChange ==
    /\ tMounted
    /\ tTimers' = ClearTimeout(tTimers, tRef)
    /\ tRefLive' = (tPlatform = "hls")
    /\ tBurst' = 0
    /\ tEv' = "ChannelChange"
    /\ UNCHANGED << tPlatform, tMounted, tNow, tNextId, tRef, tLeaked, tLastTrigger,
                    tLoads, retryOthers >>

\* lines 216-225: the player is closed
TClose ==
    /\ tMounted
    /\ tMounted' = FALSE
    /\ tTimers' = ClearTimeout(tTimers, tRef)
    /\ tRefLive' = FALSE
    /\ tBurst' = 0
    /\ tEv' = "Close"
    /\ UNCHANGED << tPlatform, tNow, tNextId, tRef, tLeaked, tLastTrigger, tLoads,
                    retryOthers >>

RetryTriggers == {"EngineError", "LeakedEngineError", "error", "stalled"}

NextRetry ==
    \/ TTick
    \/ TEngineError
    \/ TLeakedEngineError
    \/ \E e \in {"error", "stalled"} : TElementEvent(e)
    \/ TRetryFires
    \/ TChannelChange
    \/ TClose

SpecRetry == InitRetry /\ [][NextRetry]_vars

\* C39: at most one retry timer is pending at any time; a retry trigger
\* leaves exactly the timer it scheduled, due 3 s later; a timer that
\* fires does so 3 s or more after the last trigger and is the only load
\* attempt since that trigger.
C39_SingleRetryTimer ==
    /\ [](Cardinality(tTimers) <= 1)
    /\ [][ /\ tEv' \in RetryTriggers
              => tTimers' = {[id |-> tRef', due |-> tNow + RetryDelay]}
           /\ tEv' = "RetryFires"
              => /\ tNow >= tLastTrigger + RetryDelay
                 /\ tTimers' = {}
                 /\ tLoads' = 1 ]_vars

C39_Witness ==
    /\ tEv = "RetryFires"
    /\ tLoads = 1
    /\ tBurst >= 2
    /\ tNow = tLastTrigger + RetryDelay
    /\ tTimers = {}

====
